---------------------------- MODULE Spec2Model ----------------------------
(***************************************************************************)
(* A model of osgEarth's ExtrudeGeometryFilter (ExtrudeGeometryFilter.cpp). *)
(*                                                                         *)
(* Lengths are whole numbers of one model length unit.  The footprints of  *)
(* the catalogue below are chosen so that every length the builder takes   *)
(* (an edge of the base ring, an edge of the roof ring) is a whole number, *)
(* and every point it interpolates has whole coordinates; on them the      *)
(* integer arithmetic below is the arithmetic of the code, exactly.        *)
(* A null pointer is the record of its type whose id is 0.                 *)
(***************************************************************************)
EXTENDS Integers, Sequences, FiniteSets, TLC

\* ------------------------------------------------------------------ bounds

\* pushes one filter instance receives in one behaviour
MaxPushes == 2
\* largest number of wall texture tiles a footprint of the structure
\* catalogue may span (inputs that would need more are left out)
MaxTiles == 20
\* heights range over -MaxHeight .. MaxHeight
MaxHeight == 2

\* ---------------------------------------------------------------- constants

\* the double the extent pass starts from (float.h), as far above every
\* coordinate of the catalogue as DBL_MAX is above a real one
DBL_MAX == 1000000

\* ------------------------------------------------------------- arithmetic

Abs(x) == IF x < 0 THEN -x ELSE x

Max2(a, b) == IF a > b THEN a ELSE b

RECURSIVE Gcd(_, _)
Gcd(a, b) == IF b = 0 THEN a ELSE Gcd(b, a % b)

\* a double that is a quotient of two whole numbers, in lowest terms;
\* den = 0 is the quotient by zero (inf or NaN)
Rat(n, d) ==
    IF d = 0 THEN [num |-> IF n > 0 THEN 1 ELSE IF n < 0 THEN -1 ELSE 0, den |-> 0]
    ELSE LET s == IF d < 0 THEN -1 ELSE 1
             lowest(g) == [num |-> s * (n \div g), den |-> s * (d \div g)]
         IN  lowest(Gcd(Abs(n), Abs(d)))

RatLess(a, b) == a.num * b.den < b.num * a.den

RECURSIVE SqrtFrom(_, _)
SqrtFrom(n, r) == IF (r + 1) * (r + 1) > n THEN r ELSE SqrtFrom(n, r + 1)

\* sqrt, exact on the squares (the catalogue's lengths), rounded down elsewhere
Sqrt(n) == SqrtFrom(n, 0)

\* osg::round of the quotient a / b, for a >= 0 and b > 0
RoundDiv(a, b) == (2 * a + b) \div (2 * b)

\* ------------------------------------------------------------- osg::Vec3d

VecAdd(a, b) == <<a[1] + b[1], a[2] + b[2], a[3] + b[3]>>

VecSub(a, b) == <<a[1] - b[1], a[2] - b[2], a[3] - b[3]>>

VecDot(a, b) == a[1] * b[1] + a[2] * b[2] + a[3] * b[3]

VecCross(a, b) ==
    << a[2] * b[3] - a[3] * b[2],
       a[3] * b[1] - a[1] * b[3],
       a[1] * b[2] - a[2] * b[1] >>

VecLength(a) == Sqrt(VecDot(a, a))

\* (v normalized) * advance.  Vec3d::normalize leaves the zero vector as it is.
VecAlong(v, advance) ==
    LET scaled(len) == IF len = 0 THEN <<0, 0, 0>>
                       ELSE << (v[1] * advance) \div len,
                               (v[2] * advance) \div len,
                               (v[3] * advance) \div len >>
    IN  scaled(VecLength(v))

\* (a normalized) * (b normalized)
CosBetween(a, b) ==
    LET cos(la, lb) == IF la = 0 \/ lb = 0 THEN Rat(0, 1)
                       ELSE Rat(VecDot(a, b), la * lb)
    IN  cos(VecLength(a), VecLength(b))

ZeroVec == <<0, 0, 0>>

RECURSIVE Flatten(_)
Flatten(ss) == IF ss = <<>> THEN <<>> ELSE Head(ss) \o Flatten(Tail(ss))

\* --------------------------------------------------------------- Geometry

(***************************************************************************)
(* A geometry part is [type, rings]: a polygon's rings are its outer ring  *)
(* and its holes, a line string has one ring.  Each ring is its points in  *)
(* order.  The polygons of the catalogue are wound counter-clockwise and   *)
(* open (first point /= last point), so that process's rewind(CCW) and     *)
(* open() leave them as they are.                                          *)
(***************************************************************************)
Polygon(rings) == [type |-> "polygon", rings |-> rings]

LineString(points) == [type |-> "line", rings |-> <<points>>]

\* every point of every ring (ConstGeometryIterator over the part)
AllPoints(input) == Flatten(input.rings)

\* the running maximum, and minimum, of the numbers of s, from start
SeqMax(s, start) ==
    LET RECURSIVE go(_, _)
        go(i, acc) == IF i > Len(s) THEN acc
                      ELSE go(i + 1, IF s[i] > acc THEN s[i] ELSE acc)
    IN  go(1, start)

SeqMin(s, start) ==
    LET RECURSIVE go(_, _)
        go(i, acc) == IF i > Len(s) THEN acc
                      ELSE go(i + 1, IF s[i] < acc THEN s[i] ELSE acc)
    IN  go(1, start)

\* Geometry::getBounds of the part's outer ring
Bounds(input) ==
    LET pts == input.rings[1]
        X == [i \in 1..Len(pts) |-> pts[i][1]]
        Y == [i \in 1..Len(pts) |-> pts[i][2]]
    IN  [xMin |-> SeqMin(X, DBL_MAX), xMax |-> SeqMax(X, -DBL_MAX),
         yMin |-> SeqMin(Y, DBL_MAX), yMax |-> SeqMax(Y, -DBL_MAX)]

\* the length of the ring as the builder measures it: the sum of its edges,
\* the closing edge included for a polygon
RingLength(ring, closed) ==
    LET n == Len(ring)
        edge(i) == VecLength(VecSub(ring[IF i = n THEN 1 ELSE i + 1], ring[i]))
        RECURSIVE go(_)
        go(i) == IF i > (IF closed THEN n ELSE n - 1) THEN 0 ELSE edge(i) + go(i + 1)
    IN  IF n < 2 THEN 0 ELSE go(1)

\* ------------------------------------------------------- getApparentRotation

\* The longest edge of the outer ring (the first found among equals) and the
\* angle atan2(dx, dy) it makes, as [sin, cos, h]: sin(angle) = sin / h and
\* cos(angle) = cos / h.
getApparentRotation(geom) ==
    LET pts == geom.rings[1]
        n == Len(pts)
        second(i) == pts[IF i = n THEN 1 ELSE i + 1]
        len2(i) == LET d == VecSub(second(i), pts[i]) IN VecDot(d, d)
        RECURSIVE longest(_, _, _)
        longest(i, best, maxLen2) ==
            IF i > n THEN best
            ELSE IF len2(i) > maxLen2 THEN longest(i + 1, i, len2(i))
                 ELSE longest(i + 1, best, maxLen2)
        \* atan2(dx, dy) of the vector (dx, dy) of length h
        atan2(dx, dy, h) == IF h = 0 THEN [sin |-> 0, cos |-> 1, h |-> 1]
                            ELSE [sin |-> dx, cos |-> dy, h |-> h]
        angle(dx, dy) == atan2(dx, dy, Sqrt(dx * dx + dy * dy))
        \* p1 is the end of the edge with the smaller x
        between(p1, p2) == angle(p2[1] - p1[1], p2[2] - p1[2])
        ofEdge(first, sec) == IF first[1] < sec[1] THEN between(first, sec)
                              ELSE between(sec, first)
        ofLongest(b) == IF b = 0 THEN ofEdge(ZeroVec, ZeroVec)
                        ELSE ofEdge(pts[b], second(b))
    IN  ofLongest(IF n = 0 THEN 0 ELSE longest(1, 0, 0))

\* ------------------------------------------------------------- SkinResource

\* [id, imageWidth, imageHeight, isTiled, decal]; id 0 is the null pointer
NoSkin == [id |-> 0, imageWidth |-> 0, imageHeight |-> 1, isTiled |-> FALSE, decal |-> FALSE]

Skin(id, w, h, tiled, decal) ==
    [id |-> id, imageWidth |-> w, imageHeight |-> h, isTiled |-> tiled, decal |-> decal]

\* ------------------------------------------------------------ FilterContext

\* transformAndLocalize for a projected source SRS that is the map's SRS, on
\* a flat map: the point times _world2local, a translation to cx.origin
transformAndLocalize(p, cx) == VecSub(p, cx.origin)

\* ------------------------------------------------------------ buildStructure

\* a Corner whose members were left as the memory held them (junk), but for
\* the Vec3d members, which their constructor zeroes: what "Corner corner;"
\* would declare
IndeterminateCorner(junk) ==
    [base |-> ZeroVec, roof |-> ZeroVec, isFromSource |-> junk.flag,
     height |-> junk.num, offsetX |-> junk.num,
     roofTexU |-> junk.rat, roofTexV |-> junk.rat, cosAngle |-> junk.rat]

\* Corner(): a value-initialized Corner.  Corner is a plain record of
\* attributes with no constructor of its own, so the expression Corner() zeroes
\* every member before the constructors of the Vec3d members run, whatever
\* the memory held (junk)
Corner(junk) ==
    [base |-> ZeroVec, roof |-> ZeroVec, isFromSource |-> FALSE,
     height |-> 0, offsetX |-> 0,
     roofTexU |-> Rat(0, 1), roofTexV |-> Rat(0, 1), cosAngle |-> Rat(0, 1)]

InsertAt(s, i, x) == SubSeq(s, 1, i - 1) \o <<x>> \o SubSeq(s, i, Len(s))

\* a Step 1 that leaves the roof of an unflattened corner on its source
\* point: C11_PlainPolygon must reject it
SourceCornerNotRaised(m, e) ==
    LET base0 == IF e.height >= 0 THEN m ELSE <<m[1], m[2], m[3] + e.height>>
        roof0 == IF e.height >= 0
                 THEN IF e.flatten THEN <<m[1], m[2], e.targetLen>>
                      ELSE m
                 ELSE m
        xr == roof0[1] - e.roofBounds.xMin
        yr == roof0[2] - e.roofBounds.yMin
        textured == e.roofSkin.id /= 0 /\ e.cx.srs
        base == IF e.cx.srs THEN transformAndLocalize(base0, e.cx) ELSE base0
        roof == IF e.cx.srs THEN transformAndLocalize(roof0, e.cx) ELSE roof0
    IN  [Corner(e.junk) EXCEPT
            !.isFromSource = TRUE,
            !.base = base,
            !.roof = roof,
            !.roofTexU = IF textured
                         THEN Rat(e.rot.cos * xr - e.rot.sin * yr, e.roofTexSpanX)
                         ELSE @,
            !.roofTexV = IF textured
                         THEN Rat(e.rot.sin * xr + e.rot.cos * yr, e.roofTexSpanY)
                         ELSE @,
            !.height = VecLength(VecSub(roof, base))]

\* a Step 1 that extrudes up whatever the sign of the height:
\* C12_ExtrudeDown must reject it
SourceCornerUp(m, e) ==
    LET base0 == IF TRUE THEN m ELSE <<m[1], m[2], m[3] + e.height>>
        roof0 == IF TRUE
                 THEN IF e.flatten THEN <<m[1], m[2], e.targetLen>>
                      ELSE <<m[1], m[2], m[3] + e.height>>
                 ELSE m
        xr == roof0[1] - e.roofBounds.xMin
        yr == roof0[2] - e.roofBounds.yMin
        textured == e.roofSkin.id /= 0 /\ e.cx.srs
        base == IF e.cx.srs THEN transformAndLocalize(base0, e.cx) ELSE base0
        roof == IF e.cx.srs THEN transformAndLocalize(roof0, e.cx) ELSE roof0
    IN  [Corner(e.junk) EXCEPT
            !.isFromSource = TRUE,
            !.base = base,
            !.roof = roof,
            !.roofTexU = IF textured
                         THEN Rat(e.rot.cos * xr - e.rot.sin * yr, e.roofTexSpanX)
                         ELSE @,
            !.roofTexV = IF textured
                         THEN Rat(e.rot.sin * xr + e.rot.cos * yr, e.roofTexSpanY)
                         ELSE @,
            !.height = VecLength(VecSub(roof, base))]

\* a Step 1 that raises each roof by the height even when flattening:
\* C13_FlattenOnePlane must reject it
SourceCornerNotFlattened(m, e) ==
    LET base0 == IF e.height >= 0 THEN m ELSE <<m[1], m[2], m[3] + e.height>>
        roof0 == IF e.height >= 0
                 THEN IF e.flatten THEN <<m[1], m[2], m[3] + e.height>>
                      ELSE <<m[1], m[2], m[3] + e.height>>
                 ELSE m
        xr == roof0[1] - e.roofBounds.xMin
        yr == roof0[2] - e.roofBounds.yMin
        textured == e.roofSkin.id /= 0 /\ e.cx.srs
        base == IF e.cx.srs THEN transformAndLocalize(base0, e.cx) ELSE base0
        roof == IF e.cx.srs THEN transformAndLocalize(roof0, e.cx) ELSE roof0
    IN  [Corner(e.junk) EXCEPT
            !.isFromSource = TRUE,
            !.base = base,
            !.roof = roof,
            !.roofTexU = IF textured
                         THEN Rat(e.rot.cos * xr - e.rot.sin * yr, e.roofTexSpanX)
                         ELSE @,
            !.roofTexV = IF textured
                         THEN Rat(e.rot.sin * xr + e.rot.cos * yr, e.roofTexSpanY)
                         ELSE @,
            !.height = VecLength(VecSub(roof, base))]

\* a Step 1 that declares its corner without initializing it ("Corner corner;"
\* for Corner()): C18_Deterministic must reject it
SourceCornerNotInitialized(m, e) ==
    LET base0 == IF e.height >= 0 THEN m ELSE <<m[1], m[2], m[3] + e.height>>
        roof0 == IF e.height >= 0
                 THEN IF e.flatten THEN <<m[1], m[2], e.targetLen>>
                      ELSE <<m[1], m[2], m[3] + e.height>>
                 ELSE m
        xr == roof0[1] - e.roofBounds.xMin
        yr == roof0[2] - e.roofBounds.yMin
        textured == e.roofSkin.id /= 0 /\ e.cx.srs
        base == IF e.cx.srs THEN transformAndLocalize(base0, e.cx) ELSE base0
        roof == IF e.cx.srs THEN transformAndLocalize(roof0, e.cx) ELSE roof0
    IN  [IndeterminateCorner(e.junk) EXCEPT
            !.isFromSource = TRUE,
            !.base = base,
            !.roof = roof,
            !.roofTexU = IF textured
                         THEN Rat(e.rot.cos * xr - e.rot.sin * yr, e.roofTexSpanX)
                         ELSE @,
            !.roofTexV = IF textured
                         THEN Rat(e.rot.sin * xr + e.rot.cos * yr, e.roofTexSpanY)
                         ELSE @,
            !.height = VecLength(VecSub(roof, base))]

\* Step 1, one source point m of the ring: the real corner, extruded and
\* transformed into the target SRS
SourceCorner(m, e) ==
    LET base0 == IF e.height >= 0 THEN m ELSE <<m[1], m[2], m[3] + e.height>>
        roof0 == IF e.height >= 0
                 THEN IF e.flatten THEN <<m[1], m[2], e.targetLen>>
                      ELSE <<m[1], m[2], m[3] + e.height>>
                 ELSE m
        xr == roof0[1] - e.roofBounds.xMin
        yr == roof0[2] - e.roofBounds.yMin
        textured == e.roofSkin.id /= 0 /\ e.cx.srs
        base == IF e.cx.srs THEN transformAndLocalize(base0, e.cx) ELSE base0
        roof == IF e.cx.srs THEN transformAndLocalize(roof0, e.cx) ELSE roof0
    IN  [Corner(e.junk) EXCEPT
            !.isFromSource = TRUE,
            !.base = base,
            !.roof = roof,
            !.roofTexU = IF textured
                         THEN Rat(e.rot.cos * xr - e.rot.sin * yr, e.roofTexSpanX)
                         ELSE @,
            !.roofTexV = IF textured
                         THEN Rat(e.rot.sin * xr + e.rot.cos * yr, e.roofTexSpanY)
                         ELSE @,
            !.height = VecLength(VecSub(roof, base))]

\* a while loop that also inserts a corner at a boundary lying on the end of
\* the edge (<= for <): C6_WideTextureNoSynthetic must reject it
RECURSIVE InsertCornersAtBoundary(_, _, _, _)
InsertCornersAtBoundary(corners, c, nextTexBoundary, w) ==
    LET stay == [corners |-> corners, c |-> c,
                 nextTexBoundary |-> nextTexBoundary, returns |-> TRUE]
    IN  IF ~(nextTexBoundary <= w.cornerOffset + w.span) THEN stay
        ELSE IF w.isLastEdge /\ ~w.isPolygon THEN stay
        ELSE IF w.texWidthM <= 0 THEN [stay EXCEPT !.returns = FALSE]
        ELSE LET this_corner == corners[w.this]
                 advance == nextTexBoundary - w.cornerOffset
                 new_corner(base, roof) ==
                     [Corner(w.junk) EXCEPT
                         !.isFromSource = FALSE,
                         !.base = base,
                         !.roof = roof,
                         !.height = VecLength(VecSub(roof, base)),
                         !.offsetX = w.cornerOffset + advance]
                 inserted ==
                     InsertAt(corners, c + 1,
                         new_corner(VecAdd(this_corner.base, VecAlong(w.base_vec, advance)),
                                    VecAdd(this_corner.roof, VecAlong(w.roof_vec, advance))))
             IN  InsertCornersAtBoundary(inserted, c + 1,
                                         nextTexBoundary + w.texWidthM, w)

\* Step 2, the while loop of one edge: a fake corner at every texture boundary
\* before the end of the edge.  this is the index of this_corner, c the main
\* iterator; a new corner goes in right after c (before next_corner, or at the
\* end of the list on the last edge) and c moves onto it.
\* With texWidthM <= 0 nextTexBoundary never passes the end of the edge: the
\* loop inserts corners for ever and buildStructure does not return.
RECURSIVE InsertCorners(_, _, _, _)
InsertCorners(corners, c, nextTexBoundary, w) ==
    LET stay == [corners |-> corners, c |-> c,
                 nextTexBoundary |-> nextTexBoundary, returns |-> TRUE]
    IN  IF ~(nextTexBoundary < w.cornerOffset + w.span) THEN stay
        ELSE IF w.isLastEdge /\ ~w.isPolygon THEN stay
        ELSE IF w.texWidthM <= 0 THEN [stay EXCEPT !.returns = FALSE]
        ELSE LET this_corner == corners[w.this]
                 advance == nextTexBoundary - w.cornerOffset
                 new_corner(base, roof) ==
                     [Corner(w.junk) EXCEPT
                         !.isFromSource = FALSE,
                         !.base = base,
                         !.roof = roof,
                         !.height = VecLength(VecSub(roof, base)),
                         !.offsetX = w.cornerOffset + advance]
                 inserted ==
                     InsertAt(corners, c + 1,
                         new_corner(VecAdd(this_corner.base, VecAlong(w.base_vec, advance)),
                                    VecAdd(this_corner.roof, VecAlong(w.roof_vec, advance))))
             IN  InsertCorners(inserted, c + 1,
                               nextTexBoundary + w.texWidthM, w)

\* Step 2, the for loop over the corners
RECURSIVE TileCorners(_, _, _, _, _)
TileCorners(corners, c, cornerOffset, nextTexBoundary, e) ==
    IF c > Len(corners) THEN [corners |-> corners, returns |-> TRUE]
    ELSE LET isLastEdge == c = Len(corners)
             this_corner == corners[c]
             next_corner == corners[IF isLastEdge THEN 1 ELSE c + 1]
             base_vec == VecSub(next_corner.base, this_corner.base)
             span == VecLength(base_vec)
             placed == [corners EXCEPT ![c].offsetX = cornerOffset]
             w == [this |-> c, isLastEdge |-> isLastEdge, isPolygon |-> e.isPolygon,
                   base_vec |-> base_vec,
                   roof_vec |-> VecSub(next_corner.roof, this_corner.roof),
                   cornerOffset |-> cornerOffset, span |-> span,
                   texWidthM |-> e.texWidthM, junk |-> e.junk]
             \* the rest of the for loop, after the while loop left ins
             after(ins) ==
                 IF ~ins.returns THEN [corners |-> ins.corners, returns |-> FALSE]
                 ELSE TileCorners(ins.corners, ins.c + 1, cornerOffset + span,
                                  ins.nextTexBoundary, e)
         IN  after(IF e.wallSkin.id /= 0
                   THEN InsertCorners(placed, c, nextTexBoundary, w)
                   ELSE [corners |-> placed, c |-> c,
                         nextTexBoundary |-> nextTexBoundary, returns |-> TRUE])

\* Step 3: prev_vec is set at the first corner, from the last corner to it, and
\* not again; cosAngle is assigned at every corner but the first
CornerAngles(corners) ==
    LET n == Len(corners)
        prev_vec == VecSub(corners[1].roof, corners[n].roof)
        this_vec(i) == VecSub(corners[IF i = n THEN 1 ELSE i + 1].roof, corners[i].roof)
    IN  [i \in 1..n |->
            IF i = 1 THEN corners[i]
            ELSE [corners[i] EXCEPT !.cosAngle = CosBetween(prev_vec, this_vec(i))]]

\* a Step 4 that never closes the shape: C3_FacesMatchCorners must reject it
FacesWithoutClosing(corners, isPolygon) ==
    [i \in 1..(Len(corners) - 1) |->
        [left |-> corners[i], right |-> corners[i + 1],
         widthM |-> corners[i + 1].offsetX - corners[i].offsetX]]

\* a Step 4 that closes the shape of a line too: C15_TwoPointLine must reject
\* it
MakeFacesClosed(corners, isPolygon) ==
    LET n == Len(corners)
        face(i) ==
            LET closing == i = n
                this_corner == corners[i]
                next_corner == corners[IF closing THEN 1 ELSE i + 1]
                vec == VecSub(next_corner.roof, this_corner.roof)
            IN  [left |-> this_corner,
                 right |-> IF closing
                           THEN [next_corner EXCEPT
                                    !.offsetX = this_corner.offsetX + VecLength(vec)]
                           ELSE next_corner,
                 widthM |-> next_corner.offsetX - this_corner.offsetX]
    IN  [i \in 1..n |-> face(i)]

\* Step 4: a face from each corner to the next; the shape is closed only for
\* polygons
MakeFaces(corners, isPolygon) ==
    LET n == Len(corners)
        face(i) ==
            LET closing == i = n
                this_corner == corners[i]
                next_corner == corners[IF closing THEN 1 ELSE i + 1]
                vec == VecSub(next_corner.roof, this_corner.roof)
            IN  [left |-> this_corner,
                 right |-> IF closing
                           THEN [next_corner EXCEPT
                                    !.offsetX = this_corner.offsetX + VecLength(vec)]
                           ELSE next_corner,
                 widthM |-> next_corner.offsetX - this_corner.offsetX]
    IN  [i \in 1..(IF isPolygon THEN n ELSE n - 1) |-> face(i)]

\* One pass of the loop over the parts of the input: the Elevation of a ring of
\* at least 2 points.  corners is the local list of the pass as Step 4 reads it
\* (the Elevation keeps the faces only); returns is FALSE when Step 2 never ends.
BuildElevation(ring, e) ==
    LET maxHeight == e.targetLen - e.minZ
        div == RoundDiv(maxHeight, e.texHeightM)
        real == [i \in 1..Len(ring) |-> SourceCorner(ring[i], e)]
        \* Steps 3 and 4, on the corners Step 2 left
        finished(corners) ==
            [texHeightAdjustedM |-> Rat(maxHeight, IF div > 0 THEN div ELSE 1),
             corners |-> corners,
             faces |-> MakeFaces(corners, e.isPolygon),
             returns |-> TRUE]
        elevation(tiled) ==
            IF tiled.returns THEN finished(CornerAngles(tiled.corners))
            ELSE [texHeightAdjustedM |-> Rat(maxHeight, IF div > 0 THEN div ELSE 1),
                  corners |-> tiled.corners, faces |-> <<>>, returns |-> FALSE]
    IN  elevation(TileCorners(real, 1, 0, e.texWidthM, e))

\* a loop over the parts that skips none: C8_DegeneratePartsSkipped must
\* reject it
RECURSIVE BuildElevationsNoSkip(_, _, _)
BuildElevationsNoSkip(rings, i, e) ==
    IF i > Len(rings) THEN <<>>
    ELSE LET rest(elevation) ==
                 IF elevation.returns
                 THEN <<elevation>> \o BuildElevationsNoSkip(rings, i + 1, e)
                 ELSE <<elevation>>
         IN  rest(BuildElevation(rings[i], e))

\* the loop over the parts: a part that is too small is skipped; the loop is
\* left for good by a part whose Step 2 never ends
RECURSIVE BuildElevations(_, _, _)
BuildElevations(rings, i, e) ==
    IF i > Len(rings) THEN <<>>
    ELSE IF Len(rings[i]) < 2 THEN BuildElevations(rings, i + 1, e)
    ELSE LET rest(elevation) ==
                 IF elevation.returns THEN <<elevation>> \o BuildElevations(rings, i + 1, e)
                 ELSE <<elevation>>
         IN  rest(BuildElevation(rings[i], e))

\* buildStructure: the Structure of one part.  returns = FALSE: the call never
\* returns.  junk is what the memory of a new Corner held before Corner().
buildStructure(input, height, flatten, verticalOffset, wallSkin, roofSkin, cx, junk) ==
    LET absHeight == Abs(height)
        points == AllPoints(input)
        tileX == IF roofSkin.imageWidth <= 0 THEN 10 ELSE roofSkin.imageWidth
        tileY == IF roofSkin.imageHeight <= 0 THEN 10 ELSE roofSkin.imageHeight
        \* the structure, once the loop over the parts has left its elevations
        structure(centroid, elevations) ==
            [isPolygon |-> input.type = "polygon",
             verticalOffset |-> verticalOffset,
             baseCentroid |-> IF cx.srs THEN transformAndLocalize(centroid, cx)
                              ELSE ZeroVec,
             elevations |-> elevations,
             returns |-> \A i \in 1..Len(elevations) : elevations[i].returns]
        \* the body, after the extent pass and the roof texture setup
        build(targetLen, minZ, roofBounds, rot) ==
            LET width == roofBounds.xMax - roofBounds.xMin
                depth == roofBounds.yMax - roofBounds.yMin
                e == [height |-> height, flatten |-> flatten, targetLen |-> targetLen,
                      minZ |-> minZ, roofSkin |-> roofSkin, wallSkin |-> wallSkin,
                      cx |-> cx, junk |-> junk, rot |-> rot, roofBounds |-> roofBounds,
                      isPolygon |-> input.type = "polygon",
                      \* the roof texture spans, times rot.h
                      roofTexSpanX |-> IF roofSkin.isTiled THEN rot.h * tileX
                                       ELSE rot.cos * width - rot.sin * depth,
                      roofTexSpanY |-> IF roofSkin.isTiled THEN rot.h * tileY
                                       ELSE rot.sin * width + rot.cos * depth,
                      texWidthM |-> IF wallSkin.id /= 0 THEN wallSkin.imageWidth ELSE 0,
                      texHeightM |-> IF wallSkin.id /= 0 THEN wallSkin.imageHeight ELSE 1]
            IN  structure(<< (roofBounds.xMin + roofBounds.xMax) \div 2,
                             (roofBounds.yMin + roofBounds.yMax) \div 2, minZ >>,
                          BuildElevations(input.rings, 1, e))
    IN  build(SeqMax([i \in 1..Len(points) |-> points[i][3] + absHeight], -DBL_MAX),
              SeqMin([i \in 1..Len(points) |-> points[i][3]], DBL_MAX),
              Bounds(input),
              IF roofSkin.id /= 0 THEN getApparentRotation(input)
              ELSE [sin |-> 0, cos |-> 0, h |-> 1])

\* Elevation::getNumPoints and Structure::getNumPoints: 6 vertices per face
getNumPoints(structure) ==
    LET RECURSIVE go(_)
        go(i) == IF i > Len(structure.elevations) THEN 0
                 ELSE 6 * Len(structure.elevations[i].faces) + go(i + 1)
    IN  go(1)

\* ------------------------------------------------------------------ inputs

\* flat footprints
Square == Polygon(<< << <<0, 0, 0>>, <<2, 0, 0>>, <<2, 2, 0>>, <<0, 2, 0>> >> >>)

Rectangle == Polygon(<< << <<0, 0, 1>>, <<4, 0, 1>>, <<4, 2, 1>>, <<0, 2, 1>> >> >>)

\* a square with a square hole (the hole wound the other way)
Courtyard ==
    Polygon(<< << <<0, 0, 0>>, <<4, 0, 0>>, <<4, 4, 0>>, <<0, 4, 0>> >>,
               << <<1, 1, 0>>, <<1, 3, 0>>, <<3, 3, 0>>, <<3, 1, 0>> >> >>)

\* a square whose hole has one point only
PinHole ==
    Polygon(<< << <<0, 0, 0>>, <<2, 0, 0>>, <<2, 2, 0>>, <<0, 2, 0>> >>,
               << <<1, 1, 0>> >> >>)

\* a polygon of one point
Dot == Polygon(<< << <<2, 2, 0>> >> >>)

Wall2 == LineString(<< <<0, 0, 0>>, <<4, 0, 0>> >>)

Wall3 == LineString(<< <<0, 0, 0>>, <<4, 0, 0>>, <<4, 2, 0>> >>)

\* a line string of one point
Post == LineString(<< <<0, 0, 0>> >>)

\* footprints on sloping ground: their edges are 3-4-5 triangles' sides, times
\* SlopeUnit, so that a corner at a multiple of SlopeUnit along an edge has whole
\* coordinates
Ramp == Polygon(<< << <<0, 0, 0>>, <<18, 0, 24>> >> >>)

Terrace ==
    Polygon(<< << <<0, 20, 0>>, <<0, 0, 0>>, <<18, 0, 24>>, <<18, 20, 24>> >> >>)

Slope == LineString(<< <<0, 0, 0>>, <<15, 0, 20>>, <<15, 10, 20>> >>)

FlatParts == {Square, Rectangle, Courtyard, PinHole, Dot, Wall2, Wall3, Post}

SlopedParts == {Ramp, Terrace, Slope}

\* the wall texture widths tried on the flat footprints, and on the sloping ones
FlatWidths == {0, 1, 2, 3, 8, 12}

SlopedWidths == {0, 5, 10, 60, 100}

\* the length of all the rings of a part
Perimeter(part) ==
    LET RECURSIVE go(_)
        go(i) == IF i > Len(part.rings) THEN 0
                 ELSE RingLength(part.rings[i], part.type = "polygon") + go(i + 1)
    IN  go(1)

WallSkin(w) == Skin(1, w, 2, TRUE, FALSE)

RoofSkins == {NoSkin, Skin(2, 2, 2, TRUE, FALSE), Skin(3, 0, 0, FALSE, FALSE)}

\* what is found in memory that was not initialized
JunkValues ==
    { [flag |-> FALSE, num |-> 0, rat |-> Rat(0, 1)],
      [flag |-> TRUE, num |-> 7, rat |-> Rat(1, 2)] }

\* a FilterContext: whether the profile has an SRS, the origin of the local
\* frame, whether it holds a feature index, whether its session has a style sheet
Contexts ==
    { [srs |-> FALSE, origin |-> ZeroVec, index |-> FALSE, sheet |-> TRUE],
      [srs |-> TRUE, origin |-> <<1, 1, 0>>, index |-> TRUE, sheet |-> TRUE],
      [srs |-> TRUE, origin |-> ZeroVec, index |-> FALSE, sheet |-> FALSE] }

StructInputsOf(parts, widths) ==
    { [input |-> p, height |-> h, flatten |-> f, verticalOffset |-> 0,
       wallSkin |-> ws, roofSkin |-> rs, cx |-> cx, junk |-> j] :
        p \in parts, h \in -MaxHeight..MaxHeight, f \in BOOLEAN,
        ws \in {NoSkin} \cup {WallSkin(w) : w \in widths},
        rs \in RoofSkins, cx \in Contexts, j \in JunkValues }

\* the inputs of the structure builder: a footprint spans at most MaxTiles
\* tiles of the wall texture
StructInputs ==
    { in \in StructInputsOf(FlatParts, FlatWidths) \cup StructInputsOf(SlopedParts, SlopedWidths) :
        Perimeter(in.input) <= MaxTiles * Max2(in.wallSkin.imageWidth, 1) }

EmptyStructure ==
    [isPolygon |-> FALSE, verticalOffset |-> 0, baseCentroid |-> ZeroVec,
     elevations |-> <<>>, returns |-> TRUE]

\* ------------------------------------------------------------------- state

VARIABLES
    sIn,     \* the arguments of a buildStructure call
    sOut,    \* [called, structure]: its result, once called
    filter,  \* the ExtrudeGeometryFilter
    result,  \* what the last push returned
    log,     \* what the last push did for each part; the addDrawable calls made
    pushes   \* the number of push calls made

vars == <<sIn, sOut, filter, result, log, pushes>>

\* ------------------------------------------- the structure builder alone

NoStructureCall ==
    /\ sIn = [input |-> Dot, height |-> 0, flatten |-> FALSE, verticalOffset |-> 0,
              wallSkin |-> NoSkin, roofSkin |-> NoSkin,
              cx |-> [srs |-> FALSE, origin |-> ZeroVec, index |-> FALSE, sheet |-> TRUE],
              junk |-> [flag |-> FALSE, num |-> 0, rat |-> Rat(0, 1)]]
    /\ sOut = [called |-> FALSE, structure |-> EmptyStructure]

\* the log before any push
NoLog ==
    [input |-> <<>>,
     context |-> [srs |-> FALSE, origin |-> ZeroVec, index |-> FALSE, sheet |-> FALSE],
     symbols |-> [wall |-> [valid |-> FALSE, library |-> "", randomSeed |-> 0],
                  roof |-> [valid |-> FALSE, library |-> "", randomSeed |-> 0]],
     parts |-> <<>>]

NoFilter ==
    /\ filter = [created |-> 0]
    /\ result = [kind |-> "none"]
    /\ log = NoLog
    /\ pushes = 0

InitStructure ==
    /\ sIn \in StructInputs
    /\ sOut = [called |-> FALSE, structure |-> EmptyStructure]
    /\ NoFilter

BuildStructureCall ==
    /\ ~sOut.called
    /\ sOut' = [called |-> TRUE,
                structure |-> buildStructure(sIn.input, sIn.height, sIn.flatten,
                                             sIn.verticalOffset, sIn.wallSkin,
                                             sIn.roofSkin, sIn.cx, sIn.junk)]
    /\ UNCHANGED <<sIn, filter, result, log, pushes>>

NextStructure == BuildStructureCall

SpecStructure == InitStructure /\ [][NextStructure]_vars

\* ----------------------------------------------- claims on buildStructure

\* the structure a completed buildStructure call returned
Built == sOut.called /\ sOut.structure.returns

Elevs == sOut.structure.elevations

\* the rings of the input that get an Elevation, in order
BuiltRings(input) == SelectSeq(input.rings, LAMBDA r : Len(r) >= 2)

HasSynthetic(elevation) ==
    \E i \in 1..Len(elevation.corners) : ~elevation.corners[i].isFromSource

\* C3: in every Elevation buildStructure produces, the number of faces is the
\* number of corners (source and synthetic) for a closed polygon, and the number
\* of corners minus one for an open line.
C3_FacesMatchCorners ==
    Built =>
        \A i \in 1..Len(Elevs) :
            Len(Elevs[i].faces) =
                IF sIn.input.type = "polygon" THEN Len(Elevs[i].corners)
                ELSE Len(Elevs[i].corners) - 1

\* an open line that got synthetic corners has been built
C3_Witness ==
    /\ Built
    /\ sIn.input.type = "line"
    /\ \E i \in 1..Len(Elevs) : HasSynthetic(Elevs[i]) /\ Len(Elevs[i].faces) >= 3

\* no multiple of w lies strictly between a and b (0 <= a, 0 < w)
NoTileBoundaryInside(a, b, w) == ((a \div w) + 1) * w >= b

\* C4: with a wall skin of texture width W > 0, no multiple of W lies strictly
\* between the left offsetX and the right offsetX of any face buildStructure
\* produces: no wall face spans more than one texture tile width.
C4_NoFaceSpansATile ==
    (Built /\ sIn.wallSkin.id /= 0 /\ sIn.wallSkin.imageWidth > 0) =>
        \A i \in 1..Len(Elevs) : \A f \in 1..Len(Elevs[i].faces) :
            NoTileBoundaryInside(Elevs[i].faces[f].left.offsetX,
                                 Elevs[i].faces[f].right.offsetX,
                                 sIn.wallSkin.imageWidth)

\* C5: with no wall skin, or a wall skin whose texture width is zero,
\* buildStructure returns and has subdivided nothing: every ring keeps exactly
\* its source corners.
C5_ZeroWidthNoSubdivision ==
    (sOut.called /\ (sIn.wallSkin.id = 0 \/ sIn.wallSkin.imageWidth = 0)) =>
        /\ sOut.structure.returns
        /\ Len(Elevs) = Len(BuiltRings(sIn.input))
        /\ \A i \in 1..Len(Elevs) :
              /\ ~HasSynthetic(Elevs[i])
              /\ Len(Elevs[i].corners) = Len(BuiltRings(sIn.input)[i])

\* C6: a wall texture width greater than or equal to the footprint perimeter
\* makes buildStructure insert no synthetic corner: a ring of N source points
\* has exactly N corners.
C6_WideTextureNoSynthetic ==
    (sOut.called /\ sIn.wallSkin.id /= 0
        /\ sIn.wallSkin.imageWidth >= Perimeter(sIn.input)) =>
        /\ sOut.structure.returns
        /\ Len(Elevs) = Len(BuiltRings(sIn.input))
        /\ \A i \in 1..Len(Elevs) :
              /\ ~HasSynthetic(Elevs[i])
              /\ Len(Elevs[i].corners) = Len(BuiltRings(sIn.input)[i])

\* a footprint has been built with a wall texture exactly as wide as its
\* perimeter
C6_Witness ==
    /\ Built
    /\ sIn.wallSkin.id /= 0
    /\ Perimeter(sIn.input) > 0
    /\ sIn.wallSkin.imageWidth = Perimeter(sIn.input)
    /\ Len(Elevs) >= 1

\* --------------------------------------------------------- Style and symbols

(***************************************************************************)
(* A Style, as far as the filter reads it:                                 *)
(*   extrusion  the ExtrusionSymbol [valid, heightSet, height, heightExpr, *)
(*              flatten]; heightExpr is "" when not set                    *)
(*   altitude   the AltitudeSymbol [valid, clamping, gpu]                  *)
(*   wallSkin   the SkinSymbol of the style the sheet holds under the      *)
(*              extrusion's wallStyleName, roofSkin likewise               *)
(*   skin       the style's own SkinSymbol                                 *)
(*   line       the LineSymbol [valid, creaseAngle]                        *)
(* A SkinSymbol is [valid, library, randomSeed]; library "" is not set.    *)
(* The styles of the model hold no PolygonSymbol and no script.            *)
(***************************************************************************)
NoSkinSymbol == [valid |-> FALSE, library |-> "", randomSeed |-> 0]

SkinSymbol(library) == [valid |-> TRUE, library |-> library, randomSeed |-> 0]

NoLine == [valid |-> FALSE, creaseAngle |-> 0]

NoExtrusion ==
    [valid |-> FALSE, heightSet |-> FALSE, height |-> 0, heightExpr |-> "",
     flatten |-> FALSE]

NoAltitude == [valid |-> FALSE, clamping |-> "none", gpu |-> FALSE]

\* Style(): a style with no symbol
EmptyStyle ==
    [extrusion |-> NoExtrusion, altitude |-> NoAltitude, wallSkin |-> NoSkinSymbol,
     roofSkin |-> NoSkinSymbol, skin |-> NoSkinSymbol, line |-> NoLine]

\* the resource libraries the style sheet of a session resolves, each the
\* skins it holds; a name outside the domain does not resolve
Libraries ==
    [walls |-> << Skin(1, 3, 2, TRUE, FALSE), Skin(4, 12, 2, TRUE, FALSE) >>,
     roofs |-> << Skin(2, 2, 2, TRUE, FALSE) >>]

NoLibrary == <<>>

\* StyleSheet::getResourceLibrary
getResourceLibrary(name) ==
    IF name \in DOMAIN Libraries THEN Libraries[name] ELSE NoLibrary

\* ResourceLibrary::getSkin(symbol, rand): one of the library's skins, the
\* same for the same rand
getSkin(lib, rand) == IF lib = <<>> THEN NoSkin ELSE lib[(rand % Len(lib)) + 1]

\* Feature::eval of a height expression
evalHeight(expr, feature) ==
    IF expr = "0-[__max_hat]" THEN 0 - feature.max_hat ELSE feature.h

\* ------------------------------------------------------ the filter instance

(***************************************************************************)
(* The members of an ExtrudeGeometryFilter, under their names.  A map from *)
(* state sets is a function from their keys; the key of the state set the  *)
(* resource cache makes for a skin is the skin's id, and 0 is the null     *)
(* state set.  A drawable container is [serial, children].                 *)
(***************************************************************************)
NewFilter ==
    [_style |-> EmptyStyle,
     _styleDirty |-> TRUE,
     _gpuClamping |-> FALSE,
     _extrusionSymbol |-> NoExtrusion,
     _heightExpr |-> "",
     _wallSkinSymbol |-> NoSkinSymbol,
     _roofSkinSymbol |-> NoSkinSymbol,
     _outlineSymbol |-> NoLine,
     _wallResLib |-> NoLibrary,
     _roofResLib |-> NoLibrary,
     _geodes |-> <<>>,
     _lineGroups |-> <<>>,
     _wallGeometries |-> <<>>,
     _roofGeometries |-> <<>>,
     created |-> 0]

_makeStencilVolume == FALSE

setStyle(f, style) == [f EXCEPT !._style = style, !._styleDirty = TRUE]

NoMap == <<>>

\* reset: the drawable containers are dropped; the symbols are read again from
\* a style that changed
reset(f, context) ==
    LET cleared == [f EXCEPT !._geodes = NoMap]
        sheet == context.sheet
        ext == f._style.extrusion
        alt == f._style.altitude
        wall == IF ext.valid /\ sheet THEN f._style.wallSkin ELSE NoSkinSymbol
        roof == IF ext.valid /\ sheet THEN f._style.roofSkin ELSE NoSkinSymbol
        skin == f._style.skin
    IN  IF ~f._styleDirty THEN cleared
        ELSE [cleared EXCEPT
                !._extrusionSymbol = ext,
                !._heightExpr =
                    IF ext.valid /\ alt.valid /\ ext.heightExpr = "" /\ ~ext.heightSet
                       /\ alt.clamping \in {"absolute", "relative"}
                    THEN "0-[__max_hat]"
                    ELSE IF ext.valid /\ ext.heightExpr /= "" THEN ext.heightExpr
                    ELSE @,
                !._gpuClamping = ext.valid /\ alt.valid /\ alt.gpu,
                !._wallSkinSymbol = IF ~wall.valid /\ skin.valid THEN skin ELSE wall,
                !._roofSkinSymbol = IF ~roof.valid /\ skin.valid THEN skin ELSE roof,
                !._outlineSymbol = IF ext.valid THEN f._style.line ELSE NoLine,
                !._styleDirty = FALSE]

\* ------------------------------------------------------------ osg::Geometry

(***************************************************************************)
(* A mesh buffer: the arrays attached to the osg::Geometry (attached holds *)
(* the names of those that are not null), each array as the sequence of    *)
(* its elements, the DrawElements of its first primitive set (de), and the *)
(* tagRange calls the feature index received for it (tags).                *)
(***************************************************************************)
NewGeometry(name) ==
    [name |-> name, attached |-> {}, verts |-> <<>>, tex |-> <<>>, colors |-> <<>>,
     normals |-> <<>>, ids |-> <<>>, anchors |-> <<>>, de |-> <<>>, tags |-> <<>>]

\* Clamping::ClampToAnchor, Clamping::ClampToGround
ClampToAnchor == "ClampToAnchor"

ClampToGround == "ClampToGround"

White == <<1, 1, 1, 1>>

\* a resize to n elements, the elements already there not counted:
\* C2_SixVerticesPerFace must reject it
ResizeTo(array, n, zero) == [i \in 1..n |-> IF i <= Len(array) THEN array[i] ELSE zero]

\* vector::resize(size() + n): n new elements, value-initialized
Resize(array, n, zero) == array \o [i \in 1..n |-> zero]

\* array[start + k] = values[k + 1] for each k (start counts from 0); an index
\* past the end of a vector is outside the model, its write is dropped
WriteAt(array, start, values) ==
    [i \in 1..Len(array) |->
        IF i > start /\ i <= start + Len(values) THEN values[i - start] ELSE array[i]]

\* all the faces of a structure, elevation after elevation, each with the
\* texHeightAdjustedM of its elevation
AllFaces(structure) ==
    LET RECURSIVE go(_)
        go(i) ==
            IF i > Len(structure.elevations) THEN <<>>
            ELSE [f \in 1..Len(structure.elevations[i].faces) |->
                     [face |-> structure.elevations[i].faces[f],
                      texHeightAdjustedM |-> structure.elevations[i].texHeightAdjustedM]]
                 \o go(i + 1)
    IN  go(1)

\* _style.has<ExtrusionSymbol>() && _style.get<ExtrusionSymbol>()->flatten()
StyleFlatten(f) == f._style.extrusion.valid /\ f._style.extrusion.flatten

\* fmod(x, w) / w as a float; fmod by zero is NaN
TexU(x, w) == IF w = 0 THEN Rat(0, 0) ELSE Rat(x % w, w)

\* h / texHeightAdjustedM
TexV(h, adjusted) == Rat(h * adjusted.den, adjusted.num)

\* the 6 vertices of one wall face, in the arrays' order
FaceVerts(f) ==
    << f.left.roof, f.left.base, f.right.base, f.right.base, f.right.roof, f.left.roof >>

FaceNormals(f) ==
    LET normal == VecCross(VecSub(f.left.base, f.left.roof),
                           VecSub(f.right.base, f.left.roof))
    IN  [i \in 1..6 |-> normal]

FaceAnchors(f, structure, flatten) ==
    LET x == structure.baseCentroid[1]
        y == structure.baseCentroid[2]
        vo == structure.verticalOffset
        ground == <<x, y, vo, ClampToGround>>
        roofL == IF flatten THEN <<x, y, vo, ClampToAnchor>>
                 ELSE <<x, y, vo + f.left.height, ClampToGround>>
        roofR == IF flatten THEN <<x, y, vo, ClampToAnchor>>
                 ELSE <<x, y, vo + f.right.height, ClampToGround>>
    IN  << roofL, ground, ground, ground, roofR, roofL >>

FaceColors(wallColor, wallBaseColor) ==
    << wallColor, wallBaseColor, wallBaseColor, wallBaseColor, wallColor, wallColor >>

\* the texture coordinates <<u, v>> of one face (image bias 0, scale 1, layer 0)
FaceTex(f, adjusted, wallSkin) ==
    LET texWidthM == wallSkin.imageWidth
        \* tex_repeats_y: the wall's own height; otherwise texHeightAdjustedM
        h(corner) == VecLength(VecSub(corner.roof, corner.base))
        v(corner) == IF wallSkin.isTiled THEN TexV(h(corner), adjusted) ELSE Rat(1, 1)
        coords(uL, uR, vL, vR) ==
            << <<uL, vL>>, <<uL, Rat(0, 1)>>, <<uR, Rat(0, 1)>>,
               <<uR, Rat(0, 1)>>, <<uR, vR>>, <<uL, vL>> >>
        \* uR is corrected to 1 when it fell below uL, or both are 0
        corrected(uL, uR) ==
            coords(uL,
                   IF RatLess(uR, uL)
                      \/ (uL.num = 0 /\ uR.num = 0 /\ uL.den /= 0 /\ uR.den /= 0)
                   THEN Rat(1, 1) ELSE uR,
                   v(f.left), v(f.right))
    IN  corrected(TexU(f.left.offsetX, texWidthM), TexU(f.right.offsetX, texWidthM))

\* the arrays of the faces from index i on, written from vertptr on
RECURSIVE WriteFaces(_, _, _, _, _)
WriteFaces(walls, faces, i, vertptr, a) ==
    IF i > Len(faces) THEN [walls |-> walls, vertptr |-> vertptr]
    ELSE LET f == faces[i].face
             w1 == [walls EXCEPT
                      !.verts = WriteAt(@, vertptr, FaceVerts(f)),
                      !.normals = WriteAt(@, vertptr, FaceNormals(f)),
                      !.anchors = IF a.anchors
                                  THEN WriteAt(@, vertptr, FaceAnchors(f, a.structure, a.flatten))
                                  ELSE @,
                      !.colors = IF a.useColor
                                 THEN WriteAt(@, vertptr, FaceColors(a.wallColor, a.wallBaseColor))
                                 ELSE @,
                      !.tex = IF a.wallSkin.id /= 0
                              THEN WriteAt(@, vertptr,
                                           FaceTex(f, faces[i].texHeightAdjustedM, a.wallSkin))
                              ELSE @,
                      !.de = @ \o [k \in 1..6 |-> vertptr + k - 1]]
         IN  WriteFaces(w1, faces, i + 1, vertptr + 6, a)

\* a wall builder that tags up to the end of the buffer, giving tagRange the
\* last vertex for the count: C27_TagRanges must reject it
buildWallGeometryTagEnd(f, structure, feature, walls, wallColor, wallBaseColor, wallSkin, index) ==
    LET numWallVerts == getNumPoints(structure)
        useColor == (wallSkin.id = 0 \/ ~wallSkin.decal) /\ ~_makeStencilVolume
        startVertPtr == Len(walls.verts)
        sized == [walls EXCEPT
                    !.attached = @ \cup {"verts", "normals"}
                                   \cup (IF wallSkin.id /= 0 THEN {"tex"} ELSE {})
                                   \cup (IF useColor THEN {"colors"} ELSE {})
                                   \cup (IF index THEN {"ids"} ELSE {})
                                   \cup (IF f._gpuClamping THEN {"anchors"} ELSE {}),
                    !.verts = Resize(@, numWallVerts, ZeroVec),
                    !.tex = IF wallSkin.id /= 0
                            THEN Resize(@, numWallVerts, <<Rat(0, 1), Rat(0, 1)>>) ELSE @,
                    !.colors = IF useColor THEN Resize(@, numWallVerts, <<0, 0, 0, 0>>) ELSE @,
                    !.normals = Resize(@, numWallVerts, ZeroVec),
                    !.ids = IF index THEN Resize(@, numWallVerts, 0) ELSE @,
                    !.anchors = IF f._gpuClamping
                                THEN Resize(@, numWallVerts, <<0, 0, 0, "">>) ELSE @]
        a == [anchors |-> f._gpuClamping, structure |-> structure,
              flatten |-> StyleFlatten(f), useColor |-> useColor,
              wallColor |-> wallColor, wallBaseColor |-> wallBaseColor,
              wallSkin |-> wallSkin]
        \* the feature index receives the range of the vertices written
        tagged(written) ==
            IF index
            THEN [written.walls EXCEPT
                    !.tags = Append(@, [feature |-> feature.fid, start |-> startVertPtr,
                                        count |-> written.vertptr])]
            ELSE written.walls
    IN  tagged(WriteFaces(sized, AllFaces(structure), 1, startVertPtr, a))

\* buildWallGeometry: the walls of one structure, appended to the buffer walls.
\* f is the filter, index whether a feature index is in use.
buildWallGeometry(f, structure, feature, walls, wallColor, wallBaseColor, wallSkin, index) ==
    LET numWallVerts == getNumPoints(structure)
        useColor == (wallSkin.id = 0 \/ ~wallSkin.decal) /\ ~_makeStencilVolume
        startVertPtr == Len(walls.verts)
        sized == [walls EXCEPT
                    !.attached = @ \cup {"verts", "normals"}
                                   \cup (IF wallSkin.id /= 0 THEN {"tex"} ELSE {})
                                   \cup (IF useColor THEN {"colors"} ELSE {})
                                   \cup (IF index THEN {"ids"} ELSE {})
                                   \cup (IF f._gpuClamping THEN {"anchors"} ELSE {}),
                    !.verts = Resize(@, numWallVerts, ZeroVec),
                    !.tex = IF wallSkin.id /= 0
                            THEN Resize(@, numWallVerts, <<Rat(0, 1), Rat(0, 1)>>) ELSE @,
                    !.colors = IF useColor THEN Resize(@, numWallVerts, <<0, 0, 0, 0>>) ELSE @,
                    !.normals = Resize(@, numWallVerts, ZeroVec),
                    !.ids = IF index THEN Resize(@, numWallVerts, 0) ELSE @,
                    !.anchors = IF f._gpuClamping
                                THEN Resize(@, numWallVerts, <<0, 0, 0, "">>) ELSE @]
        a == [anchors |-> f._gpuClamping, structure |-> structure,
              flatten |-> StyleFlatten(f), useColor |-> useColor,
              wallColor |-> wallColor, wallBaseColor |-> wallBaseColor,
              wallSkin |-> wallSkin]
        \* the feature index receives the range of the vertices written
        tagged(written) ==
            IF index
            THEN [written.walls EXCEPT
                    !.tags = Append(@, [feature |-> feature.fid, start |-> startVertPtr,
                                        count |-> written.vertptr - startVertPtr])]
            ELSE written.walls
    IN  tagged(WriteFaces(sized, AllFaces(structure), 1, startVertPtr, a))

\* ------------------------------------------------------- buildRoofGeometry

\* The tessellator (osgEarth::Tessellator, or osgUtil's when that one fails)
\* on the line loops of tempGeom: triangles over the vertices of each loop of
\* at least 3 vertices, numbered from 0 within tempGeom.  loops is the
\* sequence of [first, count].
tessellate(loops) ==
    LET fan(l) == Flatten([t \in 1..(l.count - 2) |->
                              << l.first, l.first + t, l.first + t + 1 >>])
        RECURSIVE go(_)
        go(i) == IF i > Len(loops) THEN <<>>
                 ELSE (IF loops[i].count >= 3 THEN fan(loops[i]) ELSE <<>>) \o go(i + 1)
    IN  go(1)

\* the roof vertex of a from-source left corner of a face
RoofVertex(face, structure, flatten) ==
    [vert |-> face.left.roof,
     tex |-> <<face.left.roofTexU, face.left.roofTexV>>,
     anchor |-> IF flatten
                THEN <<structure.baseCentroid[1], structure.baseCentroid[2],
                       structure.verticalOffset, ClampToAnchor>>
                ELSE <<structure.baseCentroid[1], structure.baseCentroid[2],
                       structure.verticalOffset + face.left.height, ClampToGround>>]

\* a roof line through every corner, the synthetic ones too:
\* C23_RoofOfSourceCorners must reject it
ElevationRoofAllCorners(elevation, structure, flatten) ==
    [i \in 1..Len(elevation.faces) |->
        RoofVertex(elevation.faces[i], structure, flatten)]

\* the roof vertices of one elevation: its faces' from-source left corners
ElevationRoof(elevation, structure, flatten) ==
    LET src == SelectSeq(elevation.faces, LAMBDA face : face.left.isFromSource)
    IN  [i \in 1..Len(src) |-> RoofVertex(src[i], structure, flatten)]

\* the line loops [first, count] of the elevations from index i on
RECURSIVE RoofLoops(_, _, _, _, _)
RoofLoops(structure, flatten, i, vertptr, acc) ==
    IF i > Len(structure.elevations) THEN acc
    ELSE LET loop(rv) ==
                 RoofLoops(structure, flatten, i + 1, vertptr + Len(rv),
                           [loops |-> Append(acc.loops, [first |-> vertptr, count |-> Len(rv)]),
                            verts |-> acc.verts \o rv])
         IN  loop(ElevationRoof(structure.elevations[i], structure, flatten))

\* osgEarth::Tessellator::tessellateGeometry on tempGeom: whether it succeeded
\* (ok, decided by the tessellator) and the triangles it left; a tessellator
\* that fails leaves none
tessellateGeometry(loops, ok) ==
    [ok |-> ok, triangles |-> IF ok THEN tessellate(loops) ELSE <<>>]

\* osgUtil::Tessellator::retessellatePolygons on tempGeom
retessellatePolygons(loops) == tessellate(loops)

\* a tessellation that never falls back: C16_FallbackOnFailure must reject it
TessellateRoofNoFallback(loops, oeTessOk) ==
    [calls |-> <<"oeTess">>, triangles |-> tessellateGeometry(loops, oeTessOk).triangles]

\* the tessellation of the roof lines: the tessellator of osgEarth, and that
\* of OSG when it fails.  calls lists the tessellators invoked.
TessellateRoof(loops, oeTessOk) ==
    LET fallback(oeTess) ==
            IF ~oeTess.ok
            THEN [calls |-> <<"oeTess", "osgTess">>,
                  triangles |-> retessellatePolygons(loops)]
            ELSE [calls |-> <<"oeTess">>, triangles |-> oeTess.triangles]
    IN  fallback(tessellateGeometry(loops, oeTessOk))

\* a roof builder that appends the indices of the tessellator as they are,
\* counted from 0: C22_RoofIndicesOffset must reject it
buildRoofGeometryZeroBased(f, structure, feature, roof, roofColor, roofSkin, index, oeTessOk) ==
    LET flatten == StyleFlatten(f)
        startVertPtr == Len(roof.verts)
        \* the vertices of tempGeom and the triangles of its tessellation,
        \* appended to the roof
        filled(verts, triangles) ==
            LET n == Len(verts)
            IN  [roof EXCEPT
                   !.attached = @ \cup {"verts", "colors", "normals"}
                                  \cup (IF roofSkin.id /= 0 THEN {"tex"} ELSE {})
                                  \cup (IF index THEN {"ids"} ELSE {})
                                  \cup (IF f._gpuClamping THEN {"anchors"} ELSE {}),
                   !.verts = @ \o [i \in 1..n |-> verts[i].vert],
                   !.colors = @ \o [i \in 1..n |-> roofColor],
                   !.normals = @ \o [i \in 1..n |-> <<0, 0, 1>>],
                   !.tex = IF roofSkin.id /= 0
                           THEN @ \o [i \in 1..n |-> verts[i].tex] ELSE @,
                   !.anchors = IF f._gpuClamping
                               THEN @ \o [i \in 1..n |-> verts[i].anchor] ELSE @,
                   !.de = @ \o [j \in 1..Len(triangles) |-> triangles[j]],
                   !.ids = IF index THEN Resize(@, n, 0) ELSE @,
                   !.tags = IF index
                            THEN Append(@, [feature |-> feature.fid,
                                            start |-> startVertPtr, count |-> n])
                            ELSE @]
        tessellated(lines, tess) ==
            [roof |-> filled(lines.verts, tess.triangles), calls |-> tess.calls,
             loops |-> lines.loops, returns |-> TRUE]
        lined(lines) == tessellated(lines, TessellateRoof(lines.loops, oeTessOk))
    IN  lined(RoofLoops(structure, flatten, 1, 0, [loops |-> <<>>, verts |-> <<>>]))

\* buildRoofGeometry: the roof of one structure, appended to the buffer roof.
\* oeTessOk is whether the tessellator of osgEarth succeeds on its lines.
\* [roof, calls, loops, returns]: the buffer, the tessellators invoked, the
\* line loops [first, count] given to them, and the value returned.
buildRoofGeometry(f, structure, feature, roof, roofColor, roofSkin, index, oeTessOk) ==
    LET flatten == StyleFlatten(f)
        startVertPtr == Len(roof.verts)
        \* the vertices of tempGeom and the triangles of its tessellation,
        \* appended to the roof
        filled(verts, triangles) ==
            LET n == Len(verts)
            IN  [roof EXCEPT
                   !.attached = @ \cup {"verts", "colors", "normals"}
                                  \cup (IF roofSkin.id /= 0 THEN {"tex"} ELSE {})
                                  \cup (IF index THEN {"ids"} ELSE {})
                                  \cup (IF f._gpuClamping THEN {"anchors"} ELSE {}),
                   !.verts = @ \o [i \in 1..n |-> verts[i].vert],
                   !.colors = @ \o [i \in 1..n |-> roofColor],
                   !.normals = @ \o [i \in 1..n |-> <<0, 0, 1>>],
                   !.tex = IF roofSkin.id /= 0
                           THEN @ \o [i \in 1..n |-> verts[i].tex] ELSE @,
                   !.anchors = IF f._gpuClamping
                               THEN @ \o [i \in 1..n |-> verts[i].anchor] ELSE @,
                   !.de = @ \o [j \in 1..Len(triangles) |-> triangles[j] + startVertPtr],
                   !.ids = IF index THEN Resize(@, n, 0) ELSE @,
                   !.tags = IF index
                            THEN Append(@, [feature |-> feature.fid,
                                            start |-> startVertPtr, count |-> n])
                            ELSE @]
        tessellated(lines, tess) ==
            [roof |-> filled(lines.verts, tess.triangles), calls |-> tess.calls,
             loops |-> lines.loops, returns |-> TRUE]
        lined(lines) == tessellated(lines, TessellateRoof(lines.loops, oeTessOk))
    IN  lined(RoofLoops(structure, flatten, 1, 0, [loops |-> <<>>, verts |-> <<>>]))

\* ---------------------------------------------------- buildOutlineGeometry

\* cos(DegreesToRadians(creaseAngle)) for the crease angles of the model
CosOfDegrees(angle) ==
    CASE angle = 0 -> Rat(1, 1)
      [] angle = 60 -> Rat(1, 2)
      [] angle = 180 -> Rat(-1, 1)

\* an outline with a post at every corner from the source, whatever the
\* angle: C14_PostsAtCreases must reject it
OutlineOfFaceAllPosts(faces, i, structure, flatten, cosMinAngle) ==
    LET face == faces[i]
        x == structure.baseCentroid[1]
        y == structure.baseCentroid[2]
        vo == structure.verticalOffset
        this_vec == VecSub(face.right.roof, face.left.roof)
        prev_vec == VecSub(faces[i - 1].right.roof, faces[i - 1].left.roof)
        anchor == <<x, y, vo, ClampToAnchor>>
        ground == <<x, y, vo, ClampToGround>>
        top(corner) == <<x, y, vo + corner.height, ClampToGround>>
        outline(drawPost) ==
            [verts |-> (IF drawPost THEN <<face.left.roof, face.left.base>> ELSE <<>>)
                       \o <<face.left.roof, face.right.roof>>,
             anchors |-> (IF drawPost
                          THEN IF flatten THEN <<anchor, anchor>>
                               ELSE <<top(face.left), ground>>
                          ELSE <<>>)
                         \o (IF flatten THEN <<anchor, anchor>>
                             ELSE <<top(face.left), top(face.right)>>),
             posts |-> IF drawPost THEN <<face.left>> ELSE <<>>]
    IN  outline(face.left.isFromSource)

\* the vertices and anchors one face adds: its post, then its crossbar
OutlineOfFace(faces, i, structure, flatten, cosMinAngle) ==
    LET face == faces[i]
        x == structure.baseCentroid[1]
        y == structure.baseCentroid[2]
        vo == structure.verticalOffset
        this_vec == VecSub(face.right.roof, face.left.roof)
        prev_vec == VecSub(faces[i - 1].right.roof, faces[i - 1].left.roof)
        anchor == <<x, y, vo, ClampToAnchor>>
        ground == <<x, y, vo, ClampToGround>>
        top(corner) == <<x, y, vo + corner.height, ClampToGround>>
        outline(drawPost) ==
            [verts |-> (IF drawPost THEN <<face.left.roof, face.left.base>> ELSE <<>>)
                       \o <<face.left.roof, face.right.roof>>,
             anchors |-> (IF drawPost
                          THEN IF flatten THEN <<anchor, anchor>>
                               ELSE <<top(face.left), ground>>
                          ELSE <<>>)
                         \o (IF flatten THEN <<anchor, anchor>>
                             ELSE <<top(face.left), top(face.right)>>),
             posts |-> IF drawPost THEN <<face.left>> ELSE <<>>]
    IN  outline(IF face.left.isFromSource /\ i /= 1
                THEN RatLess(CosBetween(this_vec, prev_vec), cosMinAngle)
                ELSE face.left.isFromSource)

\* the outline of one elevation, with the end post of an open line
OutlineOfElevation(elevation, structure, flatten, cosMinAngle) ==
    LET faces == elevation.faces
        x == structure.baseCentroid[1]
        y == structure.baseCentroid[2]
        vo == structure.verticalOffset
        last == faces[Len(faces)]
        outline(per) ==
            [verts |-> Flatten([i \in 1..Len(faces) |-> per[i].verts])
                       \o (IF structure.isPolygon THEN <<>>
                           ELSE <<last.right.roof, last.right.base>>),
             anchors |-> Flatten([i \in 1..Len(faces) |-> per[i].anchors])
                         \o (IF structure.isPolygon THEN <<>>
                             ELSE << IF flatten THEN <<x, y, vo, ClampToAnchor>>
                                     ELSE <<x, y, vo + last.right.height, ClampToGround>>,
                                     <<x, y, vo, ClampToGround>> >>),
             posts |-> Flatten([i \in 1..Len(faces) |-> per[i].posts])]
    IN  outline([i \in 1..Len(faces) |->
                    OutlineOfFace(faces, i, structure, flatten, cosMinAngle)])

\* the null drawable
NoDrawable == [kind |-> "null"]

\* buildOutlineGeometry: the LineDrawable of one structure, or null when it
\* would be empty.  posts lists, per elevation, the corners that got a post.
buildOutlineGeometry(f, structure) ==
    LET cosMinAngle == CosOfDegrees(f._outlineSymbol.creaseAngle)
        flatten == StyleFlatten(f)
        drawable(per, verts) ==
            IF verts = <<>> THEN NoDrawable
            ELSE [kind |-> "LineDrawable", verts |-> verts,
                  anchors |-> IF f._gpuClamping
                              THEN Flatten([i \in 1..Len(per) |-> per[i].anchors])
                              ELSE <<>>,
                  posts |-> [i \in 1..Len(per) |-> per[i].posts]]
        joined(per) == drawable(per, Flatten([i \in 1..Len(per) |-> per[i].verts]))
    IN  joined([i \in 1..Len(structure.elevations) |->
                   OutlineOfElevation(structure.elevations[i], structure, flatten,
                                      cosMinAngle)])

\* -------------------------------------------------------------- addDrawable

\* a drawable container: an osg::Geode or a LineGroup.  serial tells the
\* containers the filter created apart.
NewContainer(kind, stateSet, serial) ==
    [kind |-> kind, stateSet |-> stateSet, serial |-> serial, children |-> <<>>]

\* osg::Group::addChild: a null child is refused
addChild(group, child) ==
    IF child.kind = "null" THEN group
    ELSE [group EXCEPT !.children = Append(@, child)]

\* map[key] = value
Put(map, key, value) ==
    [k \in DOMAIN map \cup {key} |-> IF k = key THEN value ELSE map[k]]

\* the osg::Geometry the filter holds in _wallGeometries or _roofGeometries
\* under key, as a child of a container
GeometryRef(name, key) == [kind |-> "Geometry", name |-> name, key |-> key]

\* an addDrawable that makes a new container at every call:
\* C10_OneContainerPerKey must reject it
addDrawableNewContainer(f, drawable, stateSet) ==
    LET isLine == drawable.kind = "LineDrawable"
        map == IF isLine THEN f._lineGroups ELSE f._geodes
        geode == NewContainer(IF isLine THEN "LineGroup" ELSE "Geode",
                              stateSet, f.created + 1)
        put == Put(map, stateSet, addChild(geode, drawable))
    IN  [f EXCEPT !._lineGroups = IF isLine THEN put ELSE @,
                  !._geodes = IF isLine THEN @ ELSE put,
                  !.created = @ + 1]

\* addDrawable: the drawable goes into the container of its state set, which
\* is made when the map holds none for it
addDrawable(f, drawable, stateSet) ==
    LET isLine == drawable.kind = "LineDrawable"
        map == IF isLine THEN f._lineGroups ELSE f._geodes
        exists == stateSet \in DOMAIN map
        geode == IF exists THEN map[stateSet]
                 ELSE NewContainer(IF isLine THEN "LineGroup" ELSE "Geode",
                                   stateSet, f.created + 1)
        put == Put(map, stateSet, addChild(geode, drawable))
    IN  [f EXCEPT !._lineGroups = IF isLine THEN put ELSE @,
                  !._geodes = IF isLine THEN @ ELSE put,
                  !.created = IF exists THEN @ ELSE @ + 1]

\* ------------------------------------------------------------------ process

\* twice the signed area of a ring, seen from above: positive when it winds
\* counter-clockwise
SignedArea2(ring) ==
    LET n == Len(ring)
        RECURSIVE go(_)
        go(i) == IF i > n THEN 0
                 ELSE LET a == ring[i]
                          b == ring[(i % n) + 1]
                      IN  a[1] * b[2] - b[1] * a[2] + go(i + 1)
    IN  go(1)

Reverse(s) == [i \in 1..Len(s) |-> s[Len(s) + 1 - i]]

\* Geometry::rewind(ORIENTATION_CCW) of a polygon: the outer ring
\* counter-clockwise, the holes clockwise
rewind(part) ==
    [part EXCEPT !.rings =
        [i \in 1..Len(part.rings) |->
            LET area == SignedArea2(part.rings[i])
            IN  IF (i = 1 /\ area < 0) \/ (i > 1 /\ area > 0)
                THEN Reverse(part.rings[i]) ELSE part.rings[i]]]

\* Polygon::open: a ring that ends on its first point loses its last point
open(part) ==
    [part EXCEPT !.rings =
        [i \in 1..Len(part.rings) |->
            LET ring == part.rings[i]
            IN  IF Len(ring) > 2 /\ ring[1] = ring[Len(ring)]
                THEN SubSeq(ring, 1, Len(ring) - 1) ELSE ring]]

\* the length of each array attached to a mesh buffer
ArrayLengths(geom) == [a \in geom.attached |-> Len(geom[a])]

\* the numbers of vertices and of indices of each buffer of a map
BufferSizes(map) ==
    [k \in DOMAIN map |-> [verts |-> Len(map[k].verts), de |-> Len(map[k].de)]]

\* the number of points of the rings of a part that have at least 2 points
EdgePoints(part) ==
    LET RECURSIVE go(_)
        go(i) == IF i > Len(part.rings) THEN 0
                 ELSE (IF Len(part.rings[i]) >= 2 THEN Len(part.rings[i]) ELSE 0)
                      + go(i + 1)
    IN  go(1)

\* the body of the loop over the parts of a feature.  st is [f, log, hung]:
\* the filter, what was done for each part so far, and whether a call did
\* not return.
ProcessPart(st, feature, partIndex, context, junk) ==
    LET f0 == st.f
        part0 == feature.parts[partIndex]
        height == IF f0._heightExpr /= "" THEN evalHeight(f0._heightExpr, feature)
                  ELSE f0._extrusionSymbol.height
        wallSkin == IF f0._wallSkinSymbol.valid /\ f0._wallResLib /= NoLibrary
                    THEN getSkin(f0._wallResLib, feature.fid + f0._wallSkinSymbol.randomSeed)
                    ELSE NoSkin
        roofSkin == IF f0._roofSkinSymbol.valid /\ f0._roofResLib /= NoLibrary
                    THEN getSkin(f0._roofResLib, feature.fid + f0._roofSkinSymbol.randomSeed)
                    ELSE NoSkin
        wallStateSet == wallSkin.id
        roofStateSet == roofSkin.id
        isPolygon == part0.type = "polygon"
        newWalls == wallStateSet \notin DOMAIN f0._wallGeometries
        newRoof == isPolygon /\ roofStateSet \notin DOMAIN f0._roofGeometries
        wallsBefore == IF newWalls THEN NewGeometry("Walls")
                       ELSE f0._wallGeometries[wallStateSet]
        roofBefore == IF isPolygon /\ ~newRoof THEN f0._roofGeometries[roofStateSet]
                      ELSE NewGeometry("Roofs")
        \* the end of the body: f2 is the filter with the buffers of the part,
        \* f3 with the walls built, f4 with the roof built
        \* last is the filter at the end of the body
        logged(part, structure, f2, f3, f4, outlines, last) ==
            IF ~structure.returns THEN [f |-> f2, log |-> st.log, hung |-> TRUE]
            ELSE [f |-> last,
                  log |-> Append(st.log,
                      [fid |-> feature.fid, partIndex |-> partIndex, part |-> part,
                       height |-> height, wallSkin |-> wallSkin, roofSkin |-> roofSkin,
                       structure |-> structure,
                       wallStart |-> [verts |-> Len(wallsBefore.verts),
                                      de |-> Len(wallsBefore.de)],
                       walls |-> [arrays |-> ArrayLengths(f3._wallGeometries[wallStateSet]),
                                  de |-> Len(f3._wallGeometries[wallStateSet].de)],
                       roofStart |-> [verts |-> Len(roofBefore.verts),
                                      de |-> Len(roofBefore.de)],
                       roof |-> IF isPolygon
                                THEN [arrays |-> ArrayLengths(f4._roofGeometries[roofStateSet]),
                                      de |-> Len(f4._roofGeometries[roofStateSet].de)]
                                ELSE [arrays |-> <<>>, de |-> 0],
                       roofBuffers |-> [before |-> BufferSizes(f0._roofGeometries),
                                        after |-> BufferSizes(f4._roofGeometries)],
                       outlines |-> outlines,
                       containers |-> [before |-> [geodes |-> f4._geodes,
                                                   lineGroups |-> f4._lineGroups],
                                       after |-> [geodes |-> last._geodes,
                                                  lineGroups |-> last._lineGroups]]]),
                  hung |-> FALSE]
        added(part, structure, f2, f3, f4, outlines) ==
            logged(part, structure, f2, f3, f4, outlines,
                   IF f4._outlineSymbol.valid THEN addDrawable(f4, outlines, 0)
                   ELSE f4)
        outlined(part, structure, f2, f3, f4) ==
            added(part, structure, f2, f3, f4,
                  IF f4._outlineSymbol.valid THEN buildOutlineGeometry(f4, structure)
                  ELSE NoDrawable)
        roofed(part, structure, f2, f3) ==
            outlined(part, structure, f2, f3,
                     IF isPolygon
                     \* the value returned is dropped; the tessellator of
                     \* osgEarth succeeds on the footprints of the batches
                     THEN [f3 EXCEPT !._roofGeometries[roofStateSet] =
                              buildRoofGeometry(f3, structure, feature, @, White,
                                                roofSkin, context.index, TRUE).roof]
                     ELSE f3)
        walled(part, structure, f2) ==
            roofed(part, structure, f2,
                   [f2 EXCEPT !._wallGeometries[wallStateSet] =
                       buildWallGeometry(f2, structure, feature, @, White, White,
                                         wallSkin, context.index)])
        built(part, f2) ==
            walled(part,
                   buildStructure(part, height, f0._extrusionSymbol.flatten,
                                  feature.verticalOffset, wallSkin, roofSkin,
                                  context, junk),
                   f2)
        \* f1 is the filter with the wall buffer of the skin
        buffered(f1) ==
            built(IF isPolygon THEN open(rewind(part0)) ELSE part0,
                  IF newRoof
                  THEN addDrawable([f1 EXCEPT !._roofGeometries =
                                       Put(@, roofStateSet, NewGeometry("Roofs"))],
                                   GeometryRef("Roofs", roofStateSet), roofStateSet)
                  ELSE f1)
    IN  buffered(IF newWalls
                 THEN addDrawable([f0 EXCEPT !._wallGeometries =
                                      Put(@, wallStateSet, NewGeometry("Walls"))],
                                  GeometryRef("Walls", wallStateSet), wallStateSet)
                 ELSE f0)

\* the loop over the parts of a feature, from partIndex on
RECURSIVE ProcessParts(_, _, _, _, _)
ProcessParts(st, feature, partIndex, context, junk) ==
    IF st.hung \/ partIndex > Len(feature.parts) THEN st
    ELSE ProcessParts(ProcessPart(st, feature, partIndex, context, junk),
                      feature, partIndex + 1, context, junk)

\* process: the loop over the features, from index i on; a feature without
\* geometry (no part) is passed over
RECURSIVE process(_, _, _, _, _)
process(st, features, i, context, junk) ==
    IF st.hung \/ i > Len(features) THEN st
    ELSE process(ProcessParts(st, features[i], 1, context, junk),
                 features, i + 1, context, junk)

\* --------------------------------------------------------------------- push

\* new osg::Group(), and the group of createDelocalizeGroup()
EmptyGroup == [kind |-> "Group", children |-> <<>>, polygonOffset |-> FALSE]

\* the values of a map from state sets, in the order of its keys
RECURSIVE MapValues(_)
MapValues(map) ==
    IF DOMAIN map = {} THEN <<>>
    ELSE LET k == CHOOSE x \in DOMAIN map : \A y \in DOMAIN map : x <= y
         IN  <<map[k]>> \o MapValues([j \in DOMAIN map \ {k} |-> map[j]])

\* a push that always goes on to process: C7_NoExtrusionEmptyGroup must
\* reject it
NeverMissing(f) == FALSE

\* minimally, push requires an extrusion symbol
MissingExtrusion(f) == ~f._extrusionSymbol.valid

\* a push that keeps the skin symbol of a library that does not resolve:
\* C9_UnresolvedLibraryClearsChannel must reject it
KeepSymbol(symbol, sheet, lib) == symbol

\* the skin symbol of a channel after the look-up of its library lib: it is
\* cleared when it names a library the sheet does not resolve
ClearUnresolved(symbol, sheet, lib) ==
    IF sheet /\ symbol.valid /\ symbol.library /= "" /\ lib = NoLibrary
    THEN NoSkinSymbol ELSE symbol

\* push up to the call of process: [r, symbols, st], the filter reset left,
\* the skin symbols reset left, and what process starts from, the filter with
\* its libraries looked up
pushBegin(f, context) ==
    LET \* the library a skin symbol names, looked up in the sheet of the session
        lookup(symbol) ==
            IF context.sheet /\ symbol.valid /\ symbol.library /= ""
            THEN getResourceLibrary(symbol.library) ELSE NoLibrary
        resolved(r, wallLib, roofLib) ==
            [r EXCEPT
               !._wallResLib = wallLib,
               !._roofResLib = roofLib,
               !._wallSkinSymbol = ClearUnresolved(@, context.sheet, wallLib),
               !._roofSkinSymbol = ClearUnresolved(@, context.sheet, roofLib)]
        body(r) ==
            [r |-> r,
             symbols |-> [wall |-> r._wallSkinSymbol, roof |-> r._roofSkinSymbol],
             st |-> [f |-> resolved(r, lookup(r._wallSkinSymbol),
                                    lookup(r._roofSkinSymbol)),
                     log |-> <<>>, hung |-> FALSE]]
    IN  body(reset(f, context))

\* push from the return of process on: what the call leaves, r and symbols
\* being what reset left and done what process left
pushEnd(r, symbols, done) ==
    IF MissingExtrusion(r)
    THEN [f |-> r, group |-> EmptyGroup, log |-> <<>>, hung |-> FALSE,
          symbols |-> symbols]
    ELSE IF done.hung
    THEN [f |-> done.f, group |-> [kind |-> "none"], log |-> done.log,
          hung |-> TRUE, symbols |-> symbols]
    ELSE [f |-> [done.f EXCEPT !._geodes = NoMap, !._lineGroups = NoMap],
          group |-> [EmptyGroup EXCEPT
                       !.children = MapValues(done.f._geodes)
                                    \o MapValues(done.f._lineGroups),
                       !.polygonOffset = done.f._outlineSymbol.valid],
          log |-> done.log, hung |-> FALSE, symbols |-> symbols]

\* push: [f, group, log, hung, symbols], the filter after the call, the group
\* it returns, what process did, whether the call did not return, and the skin
\* symbols reset left for it
push(f, input, context, junk) ==
    LET body(b) ==
            pushEnd(b.r, b.symbols, process(b.st, input, 1, context, junk))
    IN  body(pushBegin(f, context))

\* ------------------------------------------------------- styles and features

Extrusion(height, heightExpr, flatten) ==
    [valid |-> TRUE, heightSet |-> heightExpr = "", height |-> height,
     heightExpr |-> heightExpr, flatten |-> flatten]

\* an extrusion of height 2 outlined at creases of 60 degrees
PlainStyle ==
    [EmptyStyle EXCEPT !.extrusion = Extrusion(2, "", FALSE),
                       !.line = [valid |-> TRUE, creaseAngle |-> 60]]

\* a flattened extrusion clamped on the GPU
GpuStyle ==
    [EmptyStyle EXCEPT !.extrusion = Extrusion(1, "", TRUE),
                       !.altitude = [valid |-> TRUE, clamping |-> "terrain", gpu |-> TRUE]]

\* walls and roofs textured from the libraries "walls" and "roofs", the height
\* from the attribute h of the feature
TexturedStyle ==
    [EmptyStyle EXCEPT !.extrusion = Extrusion(0, "[h]", FALSE),
                       !.wallSkin = SkinSymbol("walls"),
                       !.roofSkin = SkinSymbol("roofs")]

\* the wall skins from a library the sheet does not hold
WallMissingStyle == [TexturedStyle EXCEPT !.wallSkin = SkinSymbol("nowhere")]

\* the roof skins from a library the sheet does not hold
RoofMissingStyle ==
    [TexturedStyle EXCEPT !.roofSkin = SkinSymbol("nowhere"),
                          !.line = [valid |-> TRUE, creaseAngle |-> 0]]

Styles ==
    {EmptyStyle, PlainStyle, GpuStyle, TexturedStyle, WallMissingStyle, RoofMissingStyle}

\* a Feature: its id, the parts of its geometry (none when it has no
\* geometry), and its attributes h, __max_hat and __oe_verticalOffset
Feature(fid, parts) ==
    [fid |-> fid, parts |-> parts, h |-> 2, max_hat |-> 1, verticalOffset |-> 0]

\* the feature lists pushed
Batches ==
    { << Feature(1, <<Square>>) >>,
      << Feature(1, <<Square, Courtyard>>) >>,
      << Feature(1, <<Dot, Square>>), Feature(2, <<Wall3, Wall2>>) >>,
      << Feature(3, <<>>), Feature(4, <<PinHole, Post>>), Feature(5, <<Courtyard>>) >>,
      << Feature(2, <<Post>>) >> }

\* ----------------------------------------------------- the filter in use

Init ==
    /\ NoStructureCall
    /\ filter = NewFilter
    /\ result = [kind |-> "none"]
    /\ log = NoLog
    /\ pushes = 0

Hung == result.kind = "hung"

SetStyleCall ==
    /\ ~Hung
    /\ pushes < MaxPushes
    /\ \E style \in Styles : filter' = setStyle(filter, style)
    /\ UNCHANGED <<sIn, sOut, result, log, pushes>>

PushCall ==
    /\ ~Hung
    /\ pushes < MaxPushes
    /\ \E input \in Batches, context \in Contexts, junk \in JunkValues :
          LET returned(p) ==
                  /\ filter' = p.f
                  /\ result' = IF p.hung THEN [kind |-> "hung"] ELSE p.group
                  /\ log' = [input |-> input, context |-> context,
                             symbols |-> p.symbols, parts |-> p.log]
          IN  returned(push(filter, input, context, junk))
    /\ pushes' = pushes + 1
    /\ UNCHANGED <<sIn, sOut>>

Next == SetStyleCall \/ PushCall

Spec == Init /\ [][Next]_vars

\* ---------------------------------------------------- addDrawable alone

\* the addDrawable calls made in a row on a new filter
MaxAdds == 3

\* the state sets used as keys: the null one and those of two skins
StateSets == {0, 1, 2}

\* the drawables added: meshes, a line drawable, and the null drawable
Drawables ==
    { GeometryRef("Walls", 0), GeometryRef("Roofs", 1),
      [kind |-> "LineDrawable", verts |-> << <<0, 0, 1>>, <<0, 0, 0>> >>,
       anchors |-> <<>>, posts |-> <<>>],
      NoDrawable }

InitDrawable ==
    /\ NoStructureCall
    /\ filter = NewFilter
    /\ result = [kind |-> "none"]
    /\ log = NoLog
    /\ pushes = 0

\* log.parts holds the calls made, each [drawable, stateSet]
AddDrawableCall ==
    /\ Len(log.parts) < MaxAdds
    /\ \E drawable \in Drawables, stateSet \in StateSets :
          /\ filter' = addDrawable(filter, drawable, stateSet)
          /\ log' = [log EXCEPT !.parts = Append(@, [drawable |-> drawable,
                                                     stateSet |-> stateSet])]
    /\ UNCHANGED <<sIn, sOut, result, pushes>>

NextDrawable == AddDrawableCall

SpecDrawable == InitDrawable /\ [][NextDrawable]_vars

\* ------------------------------------------------------ claims on the filter

\* the structure's faces, and its corners that are not from the source
NumFaces(structure) == Len(AllFaces(structure))

NumSynthetic(structure) ==
    Len(SelectSeq(AllFaces(structure), LAMBDA x : ~x.face.left.isFromSource))

Parts == log.parts

\* a push that ran process to its end
Processed == pushes > 0 /\ result.kind = "Group" /\ filter._extrusionSymbol.valid

\* C1: after every buildWallGeometry or buildRoofGeometry call, every
\* per-vertex array attached to the wall or roof buffer written has the length
\* of the buffer's position array.
C1_ArraysSameLength ==
    Processed =>
        \A i \in 1..Len(Parts) :
            /\ \A a \in DOMAIN Parts[i].walls.arrays :
                  Parts[i].walls.arrays[a] = Parts[i].walls.arrays["verts"]
            /\ \A a \in DOMAIN Parts[i].roof.arrays :
                  Parts[i].roof.arrays[a] = Parts[i].roof.arrays["verts"]

\* C2: for every closed-polygon part, buildWallGeometry appends 6 x F vertices
\* and 6 x F indices to the wall buffer, where F, the number of faces of the
\* structure, is N + the number of synthetic corners and at least N; N counts
\* the source points of the rings that form an edge (2 points or more).
C2_SixVerticesPerFace ==
    Processed =>
        \A i \in 1..Len(Parts) :
            LET p == Parts[i]
                F == NumFaces(p.structure)
                N == EdgePoints(p.part)
            IN  p.part.type = "polygon" =>
                   /\ p.walls.arrays["verts"] = p.wallStart.verts + 6 * F
                   /\ p.walls.de = p.wallStart.de + 6 * F
                   /\ F = N + NumSynthetic(p.structure)
                   /\ F >= N

\* a polygon with synthetic corners whose walls went into a buffer that held
\* vertices already
C2_Witness ==
    /\ Processed
    /\ \E i \in 1..Len(Parts) :
          /\ Parts[i].part.type = "polygon"
          /\ NumSynthetic(Parts[i].structure) > 0
          /\ Parts[i].wallStart.verts > 0
          /\ Parts[i].walls.arrays["verts"] > Parts[i].wallStart.verts

\* what a push leaves alone when it does no work
Buffers == <<filter._wallGeometries, filter._roofGeometries, filter._geodes,
             filter._lineGroups, filter.created>>

\* C7: a push with a style that has no extrusion symbol returns an empty
\* group and processes no feature: no structure is built, and no wall, roof
\* or outline buffer or container is created or modified.
C7_NoExtrusionEmptyGroup ==
    [][(pushes' = pushes + 1 /\ ~filter._style.extrusion.valid) =>
          /\ result' = EmptyGroup
          /\ log'.parts = <<>>
          /\ Buffers' = Buffers]_vars

\* such a push, of features, by a filter that holds buffers of an earlier push
C7_Witness ==
    /\ pushes = 2
    /\ ~filter._style.extrusion.valid
    /\ ~filter._styleDirty
    /\ result = EmptyGroup
    /\ log.input /= <<>>
    /\ filter._wallGeometries /= NoMap

\* the <<fid, partIndex>> of every part of the features from index i on
RECURSIVE AllParts(_, _)
AllParts(features, i) ==
    IF i > Len(features) THEN <<>>
    ELSE [k \in 1..Len(features[i].parts) |-> <<features[i].fid, k>>]
         \o AllParts(features, i + 1)

\* every part of every feature pushed was built, in order
EveryPartBuilt ==
    [i \in 1..Len(Parts) |-> <<Parts[i].fid, Parts[i].partIndex>>] = AllParts(log.input, 1)

\* the number of rings of a part that have at least 2 points
EdgeRings(part) == Len(SelectSeq(part.rings, LAMBDA ring : Len(ring) >= 2))

\* C8: a ring of fewer than 2 points makes no Elevation and adds no wall,
\* roof or outline vertex; the other parts of the feature and the features
\* after it are built all the same, and the push returns its group.
C8_DegeneratePartsSkipped ==
    Processed =>
        /\ EveryPartBuilt
        /\ \A i \in 1..Len(Parts) :
              LET p == Parts[i]
              IN  /\ Len(p.structure.elevations) = EdgeRings(p.part)
                  /\ p.walls.arrays["verts"]
                        = p.wallStart.verts + 6 * NumFaces(p.structure)
                  /\ p.part.type = "polygon" =>
                        p.roof.arrays["verts"] = p.roofStart.verts + EdgePoints(p.part)
                  /\ EdgeRings(p.part) = 0 =>
                        /\ p.walls.arrays["verts"] = p.wallStart.verts
                        /\ p.outlines = NoDrawable

\* a part of one point, then a part of the same feature and a later feature
\* that both got walls; and a ring of one point in a polygon that got walls
C8_Witness ==
    /\ Processed
    /\ \E i, j, k \in 1..Len(Parts) :
          /\ i < j /\ j < k
          /\ Parts[i].fid = Parts[j].fid /\ Parts[j].fid /= Parts[k].fid
          /\ EdgeRings(Parts[i].part) = 0
          /\ Parts[j].walls.arrays["verts"] > Parts[j].wallStart.verts
          /\ Parts[k].walls.arrays["verts"] > Parts[k].wallStart.verts
    /\ filter._outlineSymbol.valid

\* the skin the library named by a skin symbol gives a feature
LibrarySkin(symbol, fid) ==
    getSkin(getResourceLibrary(symbol.library), fid + symbol.randomSeed)

\* the skin symbol names a library that the style sheet does not resolve
Unresolvable(symbol) ==
    symbol.valid /\ symbol.library /= "" /\ getResourceLibrary(symbol.library) = NoLibrary

Resolvable(symbol) ==
    symbol.valid /\ symbol.library /= "" /\ getResourceLibrary(symbol.library) /= NoLibrary

\* C9: when the wall (roof) skin symbol names a library the style sheet does
\* not resolve, push clears that skin symbol only: that channel is built with
\* no skin, the other channel has the skins of its library, and every feature
\* is processed.
C9_UnresolvedLibraryClearsChannel ==
    (Processed /\ log.context.sheet) =>
        /\ Unresolvable(log.symbols.wall) =>
              /\ ~filter._wallSkinSymbol.valid
              /\ filter._roofSkinSymbol = log.symbols.roof \/ Unresolvable(log.symbols.roof)
              /\ EveryPartBuilt
              /\ \A i \in 1..Len(Parts) :
                    /\ Parts[i].wallSkin = NoSkin
                    /\ "tex" \notin DOMAIN Parts[i].walls.arrays
                    /\ Resolvable(log.symbols.roof) =>
                          Parts[i].roofSkin = LibrarySkin(log.symbols.roof, Parts[i].fid)
        /\ Unresolvable(log.symbols.roof) =>
              /\ ~filter._roofSkinSymbol.valid
              /\ filter._wallSkinSymbol = log.symbols.wall \/ Unresolvable(log.symbols.wall)
              /\ EveryPartBuilt
              /\ \A i \in 1..Len(Parts) :
                    /\ Parts[i].roofSkin = NoSkin
                    /\ "tex" \notin DOMAIN Parts[i].roof.arrays
                    /\ Resolvable(log.symbols.wall) =>
                          Parts[i].wallSkin = LibrarySkin(log.symbols.wall, Parts[i].fid)

\* a push of polygons whose wall library does not resolve and whose roofs are
\* textured
C9_Witness ==
    /\ Processed /\ log.context.sheet
    /\ Unresolvable(log.symbols.wall) /\ Resolvable(log.symbols.roof)
    /\ \E i \in 1..Len(Parts) :
          /\ Parts[i].part.type = "polygon"
          /\ Parts[i].roofSkin /= NoSkin
          /\ Parts[i].roof.arrays["verts"] > 0
          /\ Parts[i].walls.arrays["verts"] > 0


\* the calls that went to the container of kind and key, in order
CallsOf(kind, key) ==
    SelectSeq(log.parts,
              LAMBDA c : /\ (c.drawable.kind = "LineDrawable") = (kind = "LineGroup")
                         /\ c.stateSet = key)

\* the drawables of those calls
AddedTo(kind, key) ==
    LET added == SelectSeq(CallsOf(kind, key), LAMBDA c : c.drawable.kind /= "null")
    IN  [i \in 1..Len(added) |-> added[i].drawable]

\* the map holds one container of the kind for each key used, with the
\* drawables added under the key as its children
Holds(map, kind) ==
    /\ DOMAIN map = {k \in StateSets : CallsOf(kind, k) /= <<>>}
    /\ \A k \in DOMAIN map :
          /\ map[k].kind = kind
          /\ map[k].stateSet = k
          /\ map[k].children = AddedTo(kind, k)

\* C10: after any sequence of addDrawable calls there is one container per
\* state key used and per kind of drawable (line or mesh), the null key
\* included: the first call for a key made it, no later call made another,
\* and every drawable added is a child of the container of its key.
C10_OneContainerPerKey ==
    /\ Holds(filter._geodes, "Geode")
    /\ Holds(filter._lineGroups, "LineGroup")
    /\ filter.created = Cardinality(DOMAIN filter._geodes)
                        + Cardinality(DOMAIN filter._lineGroups)
    /\ \A j, k \in DOMAIN filter._geodes :
          j /= k => filter._geodes[j].serial /= filter._geodes[k].serial
    /\ \A j \in DOMAIN filter._geodes : \A k \in DOMAIN filter._lineGroups :
          filter._geodes[j].serial /= filter._lineGroups[k].serial

\* two meshes added under the null key, and a line under a skin's key
C10_Witness ==
    /\ Len(log.parts) = MaxAdds
    /\ 0 \in DOMAIN filter._geodes
    /\ Len(filter._geodes[0].children) = 2
    /\ filter._lineGroups /= NoMap
    /\ filter.created = 2

\* ------------------------------------------------- claims on plain footprints

\* a polygon part every ring of which has an edge, built at height h >= 0
\* without flatten and without skins
PlainPolygon(p) ==
    /\ p.part.type = "polygon"
    /\ \A r \in 1..Len(p.part.rings) : Len(p.part.rings[r]) >= 2
    /\ p.height >= 0
    /\ ~filter._extrusionSymbol.flatten
    /\ p.wallSkin.id = 0
    /\ p.roofSkin.id = 0

\* C11: for a closed polygon of N source points built with height h >= 0,
\* flatten off and no wall or roof skin, buildStructure yields exactly N faces
\* and no synthetic corner, the wall buffer receives 6N vertices, the roof
\* buffer receives N vertices, and the roof Z of every corner is the Z of its
\* source point + h.
C11_PlainPolygon ==
    Processed =>
        \A i \in 1..Len(Parts) :
            LET p == Parts[i]
                N == Len(AllPoints(p.part))
                elevations == p.structure.elevations
            IN  PlainPolygon(p) =>
                   /\ NumFaces(p.structure) = N
                   /\ NumSynthetic(p.structure) = 0
                   /\ p.walls.arrays["verts"] = p.wallStart.verts + 6 * N
                   /\ p.roof.arrays["verts"] = p.roofStart.verts + N
                   /\ Len(elevations) = Len(p.part.rings)
                   /\ \A r \in 1..Len(elevations) :
                         /\ Len(elevations[r].corners) = Len(p.part.rings[r])
                         /\ \A c \in 1..Len(elevations[r].corners) :
                               /\ elevations[r].corners[c].isFromSource
                               /\ elevations[r].corners[c].roof[3]
                                     = p.part.rings[r][c][3] + p.height

\* a plain polygon with a hole has been built at a height above 0, in a local
\* frame
C11_Witness ==
    /\ Processed
    /\ log.context.srs
    /\ \E i \in 1..Len(Parts) :
          /\ PlainPolygon(Parts[i])
          /\ Len(Parts[i].part.rings) = 2
          /\ Parts[i].height > 0
          /\ Parts[i].walls.arrays["verts"] = Parts[i].wallStart.verts + 48

\* a point of the input in the frame the structure is built in
InFrame(m) == IF sIn.cx.srs THEN transformAndLocalize(m, sIn.cx) ELSE m

\* the corners of an elevation that come from the source
SourceCorners(elevation) ==
    SelectSeq(elevation.corners, LAMBDA corner : corner.isFromSource)

\* C12: with a height h < 0 the roof of every source corner is its source
\* point and its base is the source point lowered by |h|; with no wall skin
\* every corner is from the source and none is inserted, whatever the widths
\* of the textures.
C12_ExtrudeDown ==
    (Built /\ sIn.height < 0) =>
        /\ Len(Elevs) = Len(BuiltRings(sIn.input))
        /\ \A i \in 1..Len(Elevs) :
              LET ring == BuiltRings(sIn.input)[i]
                  src == SourceCorners(Elevs[i])
              IN  /\ Len(src) = Len(ring)
                  /\ \A c \in 1..Len(src) :
                        /\ src[c].roof = InFrame(ring[c])
                        /\ src[c].base =
                              InFrame(<<ring[c][1], ring[c][2], ring[c][3] + sIn.height>>)
                        /\ src[c].base[3] = ring[c][3] + sIn.height
                  /\ sIn.wallSkin.id = 0 =>
                        /\ Len(Elevs[i].corners) = Len(ring)
                        /\ \A c \in 1..Len(Elevs[i].corners) :
                              Elevs[i].corners[c].isFromSource

\* a polygon on ground that is not at 0 has been extruded down without a wall
\* skin, under a roof skin, in a local frame, the new corners' memory holding
\* a set flag
C12_Witness ==
    /\ Built
    /\ sIn.height < 0
    /\ sIn.wallSkin.id = 0
    /\ sIn.roofSkin.id /= 0
    /\ sIn.cx.srs /\ sIn.cx.origin /= ZeroVec
    /\ sIn.junk.flag
    /\ sIn.input = Rectangle
    /\ Len(Elevs) = 1 /\ Len(Elevs[1].corners) = 4

\* the largest z + |height| over all the points of the input
HighestRoof ==
    LET tops == {AllPoints(sIn.input)[i][3] + Abs(sIn.height) :
                    i \in 1..Len(AllPoints(sIn.input))}
    IN  CHOOSE t \in tops : \A u \in tops : u <= t

\* C13: with flatten on and a height >= 0, every corner of every ring of the
\* part has the same roof Z, targetLen: the largest z + |height| over all the
\* points of the part.
C13_FlattenOnePlane ==
    (Built /\ sIn.flatten /\ sIn.height >= 0) =>
        \A i \in 1..Len(Elevs) : \A c \in 1..Len(Elevs[i].corners) :
            Elevs[i].corners[c].roof[3] = InFrame(<<0, 0, HighestRoof>>)[3]

\* a footprint on sloping ground has been flattened at a height above 0, with
\* synthetic corners
C13_Witness ==
    /\ Built
    /\ sIn.flatten
    /\ sIn.height > 0
    /\ sIn.input \in SlopedParts
    /\ \E i \in 1..Len(Elevs) : HasSynthetic(Elevs[i])

\* ------------------------------------------- buildOutlineGeometry alone

\* a line of three points in a row, then a right angle
Bend == LineString(<< <<0, 0, 0>>, <<2, 0, 0>>, <<4, 0, 0>>, <<4, 2, 0>> >>)

\* the crease angles of the outline symbol, in degrees
CreaseAngles == {0, 60, 180}

\* the structures outlined: those of the catalogue and of the bent line,
\* built where the memory of a new corner holds zeros
OutlineInputs ==
    { in \in StructInputs \cup StructInputsOf({Bend}, {0, 1, 3}) :
        /\ in.junk = [flag |-> FALSE, num |-> 0, rat |-> Rat(0, 1)]
        /\ in.wallSkin.id /= 0 => in.wallSkin.imageWidth > 0 }

\* a filter after the reset of a push with a style that holds the extrusion
\* symbol and an outline of the crease angle
OutlineFilter(height, flatten, creaseAngle, gpu) ==
    [NewFilter EXCEPT
        !._style = [EmptyStyle EXCEPT
                       !.extrusion = [valid |-> TRUE, heightSet |-> TRUE,
                                      height |-> height, heightExpr |-> "",
                                      flatten |-> flatten],
                       !.line = [valid |-> TRUE, creaseAngle |-> creaseAngle]],
        !._styleDirty = FALSE,
        !._extrusionSymbol = [valid |-> TRUE, heightSet |-> TRUE, height |-> height,
                              heightExpr |-> "", flatten |-> flatten],
        !._outlineSymbol = [valid |-> TRUE, creaseAngle |-> creaseAngle],
        !._gpuClamping = gpu]

InitOutline ==
    /\ sIn \in OutlineInputs
    /\ sOut = [called |-> FALSE, structure |-> EmptyStructure]
    /\ \E creaseAngle \in CreaseAngles :
          filter = OutlineFilter(sIn.height, sIn.flatten, creaseAngle, sIn.cx.index)
    /\ result = [kind |-> "none"]
    /\ log = NoLog
    /\ pushes = 0

\* buildOutlineGeometry(structure), on the structure buildStructure returned
BuildOutlineCall ==
    /\ sOut.called
    /\ sOut.structure.returns
    /\ result = [kind |-> "none"]
    /\ result' = buildOutlineGeometry(filter, sOut.structure)
    /\ UNCHANGED <<sIn, sOut, filter, log, pushes>>

NextOutline == BuildStructureCall \/ BuildOutlineCall

SpecOutline == InitOutline /\ [][NextOutline]_vars

\* the roof edge of a face
RoofEdge(face) == VecSub(face.right.roof, face.left.roof)

\* the cosine between the directions a and b is below the fraction cos; the
\* direction of an edge of no length is the zero vector (Vec3d::normalize
\* leaves it), and its product with any direction is 0
CosineBelow(a, b, cos) ==
    IF VecLength(a) * VecLength(b) = 0 THEN 0 < cos.num
    ELSE VecDot(a, b) * cos.den < cos.num * VecLength(a) * VecLength(b)

\* the left corners of the faces that are due a post
DuePosts(faces, cos) ==
    LET due(k) == \/ k = 1
                  \/ /\ faces[k].left.isFromSource
                     /\ CosineBelow(RoofEdge(faces[k - 1]), RoofEdge(faces[k]), cos)
        RECURSIVE go(_)
        go(k) == IF k > Len(faces) THEN <<>>
                 ELSE (IF due(k) THEN <<faces[k].left>> ELSE <<>>) \o go(k + 1)
    IN  go(1)

\* buildOutlineGeometry has returned
Outlined == sOut.called /\ result.kind /= "none"

\* C14: within each elevation buildOutlineGeometry emits a post at the left
\* corner of the first face, at each later left corner from the source
\* exactly when the cosine between the previous and the current roof edge is
\* below cos(creaseAngle), and at no synthetic corner; each post is two
\* vertices next to the two of each crossbar and the two of an open line's
\* end post.  So the four right-angle corners of a square all get a post at
\* crease angle 0.
C14_PostsAtCreases ==
    Outlined =>
        IF Elevs = <<>> THEN result = NoDrawable
        ELSE /\ result.kind = "LineDrawable"
             /\ Len(result.posts) = Len(Elevs)
             /\ \A i \in 1..Len(Elevs) :
                   /\ result.posts[i] =
                         DuePosts(Elevs[i].faces,
                                  CosOfDegrees(filter._outlineSymbol.creaseAngle))
                   /\ \A k \in 1..Len(result.posts[i]) :
                         result.posts[i][k].isFromSource
                   /\ result.posts[i][1] = Elevs[i].faces[1].left
             /\ Len(result.verts) =
                   Len(Flatten(result.posts)) * 2 + NumFaces(sOut.structure) * 2
                   + (IF sOut.structure.isPolygon THEN 0 ELSE 2 * Len(Elevs))
             /\ (sIn.input = Square /\ filter._outlineSymbol.creaseAngle = 0
                     /\ sIn.wallSkin.id = 0)
                   => Len(result.posts[1]) = 4

\* an outline has been built of a structure with synthetic corners where a
\* corner from the source, after the first, got no post and another got one
C14_Witness ==
    /\ Outlined
    /\ result.kind = "LineDrawable"
    /\ \E i \in 1..Len(Elevs) :
          /\ HasSynthetic(Elevs[i])
          /\ Len(result.posts[i]) >= 2
          /\ Len(result.posts[i])
                < Len(SelectSeq(Elevs[i].faces, LAMBDA face : face.left.isFromSource))

\* ------------------------------------------------ claims on open parts

\* an open part of exactly 2 points
TwoPointLine(p) == p.part.type = "line" /\ Len(AllPoints(p.part)) = 2

\* the length of the one edge of such a part
EdgeLength(p) == VecLength(VecSub(p.part.rings[1][2], p.part.rings[1][1]))

\* C15, as stated: an open part of exactly 2 points yields exactly one face
\* and adds no roof vertex and no roof triangle.
C15_TwoPointLineOneFace ==
    Processed =>
        \A i \in 1..Len(Parts) :
            TwoPointLine(Parts[i]) =>
                /\ NumFaces(Parts[i].structure) = 1
                /\ Parts[i].roofBuffers.after = Parts[i].roofBuffers.before

\* C15, amended: an open part of exactly 2 points yields one face more than
\* the synthetic corners its wall texture inserts, so exactly one face when it
\* has no wall skin or a wall texture at least as wide as its edge is long; it
\* adds no roof vertex and no roof triangle.
C15_TwoPointLine ==
    Processed =>
        \A i \in 1..Len(Parts) :
            LET p == Parts[i]
            IN  TwoPointLine(p) =>
                   /\ Len(p.structure.elevations) = 1
                   /\ NumFaces(p.structure) = 1 + NumSynthetic(p.structure)
                   /\ (p.wallSkin.id = 0 \/ p.wallSkin.imageWidth >= EdgeLength(p))
                         => NumFaces(p.structure) = 1
                   /\ p.roofBuffers.after = p.roofBuffers.before
                   /\ p.roof = [arrays |-> <<>>, de |-> 0]

\* a line of 2 points has been built without synthetic corners by a filter
\* that holds a roof buffer with vertices
C15_Witness ==
    /\ Processed
    /\ \E i \in 1..Len(Parts) :
          /\ TwoPointLine(Parts[i])
          /\ NumFaces(Parts[i].structure) = 1
          /\ \E k \in DOMAIN Parts[i].roofBuffers.before :
                Parts[i].roofBuffers.before[k].verts > 0

\* ---------------------------------------------- buildRoofGeometry alone

\* the structures roofed: those of the polygons of the catalogue, built where
\* the memory of a new corner holds zeros
RoofInputs ==
    { in \in StructInputs :
        /\ in.input.type = "polygon"
        /\ in.junk = [flag |-> FALSE, num |-> 0, rat |-> Rat(0, 1)]
        /\ in.wallSkin.id /= 0 => in.wallSkin.imageWidth > 0 }

InitRoof ==
    /\ sIn \in RoofInputs
    /\ sOut = [called |-> FALSE, structure |-> EmptyStructure]
    /\ filter = OutlineFilter(sIn.height, sIn.flatten, 0, sIn.cx.index)
    /\ result = [kind |-> "none"]
    /\ log = NoLog
    /\ pushes = 0

\* buildRoofGeometry on the structure buildStructure returned and a new roof
\* buffer; the tessellator of osgEarth succeeds or fails
BuildRoofCall ==
    /\ sOut.called
    /\ sOut.structure.returns
    /\ result = [kind |-> "none"]
    /\ \E oeTessOk \in BOOLEAN :
          result' = [kind |-> "roof", oeTessOk |-> oeTessOk,
                     call |-> buildRoofGeometry(filter, sOut.structure,
                                                Feature(1, <<sIn.input>>),
                                                NewGeometry("Roofs"), White,
                                                sIn.roofSkin, sIn.cx.index, oeTessOk)]
    /\ UNCHANGED <<sIn, sOut, filter, log, pushes>>

NextRoof == BuildStructureCall \/ BuildRoofCall

SpecRoof == InitRoof /\ [][NextRoof]_vars

\* buildRoofGeometry has returned
Roofed == result.kind = "roof"

\* the indices of the triangles of the roof of the elevations from i on: a
\* loop of k >= 3 vertices makes k - 2 triangles
RECURSIVE RoofIndices(_)
RoofIndices(i) ==
    IF i > Len(Elevs) THEN 0
    ELSE (IF Len(SourceCorners(Elevs[i])) >= 3
          THEN 3 * (Len(SourceCorners(Elevs[i])) - 2) ELSE 0)
         + RoofIndices(i + 1)

\* C16: buildRoofGeometry invokes the secondary tessellator if and only if
\* the primary one reports failure, after the primary one, and returns
\* success in either case, with the roof's triangles in the buffer.
C16_FallbackOnFailure ==
    Roofed =>
        /\ result.call.returns
        /\ result.call.calls[1] = "oeTess"
        /\ ("osgTess" \in {result.call.calls[k] : k \in 1..Len(result.call.calls)})
              <=> ~result.oeTessOk
        /\ Len(result.call.calls) = IF result.oeTessOk THEN 1 ELSE 2
        /\ Len(result.call.roof.de) = RoofIndices(1)

\* the primary tessellator failed on a roof of two loops, and the roof got
\* its triangles
C16_Witness ==
    /\ Roofed
    /\ ~result.oeTessOk
    /\ Len(Elevs) = 2
    /\ Len(result.call.roof.de) >= 6


\* ------------------------------------------------ two filters side by side

\* the styles of the two filters run side by side
TwoStyles == {EmptyStyle, PlainStyle, GpuStyle, TexturedStyle}

\* two feature lists with no feature in common, one for each filter
TwoBatches ==
    << << Feature(1, <<Dot, Square>>), Feature(2, <<Wall3, Wall2>>) >>,
       << Feature(3, <<>>), Feature(4, <<PinHole, Post>>), Feature(5, <<Courtyard>>) >> >>

\* the changes of the running thread that are told apart
MaxSwitches == 3

\* the position of the loops of process at or after part k of feature i: the
\* next part there is, or i past the last feature
RECURSIVE NextPart(_, _, _)
NextPart(features, i, k) ==
    IF i > Len(features) THEN [i |-> i, k |-> 1]
    ELSE IF k > Len(features[i].parts) THEN NextPart(features, i + 1, 1)
    ELSE [i |-> i, k |-> k]

\* members shared by every filter (static members): C17_NoSharedState must
\* reject them
SharedInstance(filters, n) == filters[1]

\* the object a member function of filter n works on: its members are those
\* of *this
Instance(filters, n) == filters[n]

\* a push not begun yet by a filter of the given style
NewRun(style, input, context, junk) ==
    [style |-> style, input |-> input, context |-> context, junk |-> junk,
     phase |-> "new", r |-> NewFilter,
     symbols |-> NoLog.symbols, parts |-> <<>>, hung |-> FALSE,
     pos |-> [i |-> 1, k |-> 1]]

\* filter and result hold one entry for each of the two filters; log holds
\* the resource cache of the session they share (the skins it holds a state
\* set for), the push of each filter, and which thread ran last
InitTwo ==
    /\ NoStructureCall
    /\ \E s1 \in TwoStyles, s2 \in TwoStyles, context \in Contexts :
          /\ filter = << setStyle(NewFilter, s1), setStyle(NewFilter, s2) >>
          /\ log = [cache |-> {}, last |-> 0, switches |-> 0,
                    run |-> << NewRun(s1, TwoBatches[1], context,
                                      CHOOSE j \in JunkValues : ~j.flag),
                               NewRun(s2, TwoBatches[2], context,
                                      CHOOSE j \in JunkValues : j.flag) >>]
    /\ result = << [kind |-> "none"], [kind |-> "none"] >>
    /\ pushes = 0

\* the thread of filter n runs
Scheduled(n) ==
    [log EXCEPT !.last = n,
                !.switches = IF log.last \notin {0, n} /\ @ < MaxSwitches
                             THEN @ + 1 ELSE @]

\* push of filter n up to the call of process
BeginPush(n) ==
    /\ log.run[n].phase = "new"
    /\ LET run == log.run[n]
           begun(b) ==
               /\ filter' = [filter EXCEPT ![n] = IF MissingExtrusion(b.r) THEN b.r
                                                  ELSE b.st.f]
               /\ log' = [Scheduled(n) EXCEPT
                            !.run[n].phase = "processing",
                            !.run[n].r = b.r,
                            !.run[n].symbols = b.symbols,
                            !.run[n].pos = IF MissingExtrusion(b.r)
                                           THEN [i |-> Len(run.input) + 1, k |-> 1]
                                           ELSE NextPart(run.input, 1, 1)]
       IN  begun(pushBegin(Instance(filter, n), run.context))
    /\ UNCHANGED <<sIn, sOut, result, pushes>>

\* one pass of filter n through the body of the loops of process
ProcessStep(n) ==
    /\ log.run[n].phase = "processing"
    /\ ~log.run[n].hung
    /\ log.run[n].pos.i <= Len(log.run[n].input)
    /\ LET run == log.run[n]
           skins(done) ==
               IF done.hung THEN {}
               ELSE {done.log[Len(done.log)].wallSkin.id,
                     done.log[Len(done.log)].roofSkin.id} \ {0}
           stepped(done) ==
               /\ filter' = [filter EXCEPT ![n] = done.f]
               /\ log' = [Scheduled(n) EXCEPT
                            !.cache = @ \cup skins(done),
                            !.run[n].parts = done.log,
                            !.run[n].hung = done.hung,
                            !.run[n].pos = NextPart(run.input, run.pos.i, run.pos.k + 1)]
       IN  stepped(ProcessPart([f |-> Instance(filter, n), log |-> run.parts,
                                hung |-> FALSE],
                               run.input[run.pos.i], run.pos.k,
                               run.context, run.junk))
    /\ UNCHANGED <<sIn, sOut, result, pushes>>

\* push of filter n from the return of process on
EndPush(n) ==
    /\ log.run[n].phase = "processing"
    /\ log.run[n].hung \/ log.run[n].pos.i > Len(log.run[n].input)
    /\ LET run == log.run[n]
           returned(p) ==
               /\ filter' = [filter EXCEPT ![n] = p.f]
               /\ result' = [result EXCEPT ![n] = IF p.hung THEN [kind |-> "hung"]
                                                  ELSE p.group]
               /\ log' = [Scheduled(n) EXCEPT !.run[n].phase = "returned",
                                              !.run[n].parts = p.log]
       IN  returned(pushEnd(run.r, run.symbols,
                            [f |-> Instance(filter, n), log |-> run.parts,
                             hung |-> run.hung]))
    /\ pushes' = pushes + 1
    /\ UNCHANGED <<sIn, sOut>>

NextTwo == \E n \in {1, 2} : BeginPush(n) \/ ProcessStep(n) \/ EndPush(n)

SpecTwo == InitTwo /\ [][NextTwo]_vars

\* C17: two filters that process feature lists with no feature in common at
\* the same time share no state that changes: however their steps interleave,
\* each filter ends its push with the buffers, the containers and the group it
\* ends with when it makes that push alone.
C17_NoSharedState ==
    \A n \in {1, 2} :
        log.run[n].phase = "returned" =>
            LET run == log.run[n]
                same(alone) ==
                    /\ filter[n] = alone.f
                    /\ result[n] = (IF alone.hung THEN [kind |-> "hung"]
                                    ELSE alone.group)
                    /\ run.parts = alone.log
            IN  same(push(setStyle(NewFilter, run.style), run.input,
                          run.context, run.junk))

\* both filters returned after their threads took turns, each having filled
\* buffers, and the cache they share served both
C17_Witness ==
    /\ \A n \in {1, 2} : log.run[n].phase = "returned"
                         /\ DOMAIN filter[n]._wallGeometries /= {}
                         /\ result[n].kind = "Group" /\ result[n].children /= <<>>
    /\ log.switches = MaxSwitches
    /\ log.cache /= {}


\* C18: buildStructure is deterministic: two invocations with the same part,
\* height, flatten flag, vertical offset and skins give the same Structure,
\* whatever the memory of their new corners held before: every field of
\* every elevation, corner and face is the same, the cosAngle of the first
\* corner of each ring too.
C18_Deterministic ==
    sOut.called =>
        \A j \in JunkValues :
            buildStructure(sIn.input, sIn.height, sIn.flatten, sIn.verticalOffset,
                           sIn.wallSkin, sIn.roofSkin, sIn.cx, j) = sOut.structure

\* a structure was built in memory that held something else than zeroes, with
\* a ring of three corners or more whose first corner Step 3 passed over, and
\* without a roof skin, so that Step 1 assigned no roof texture coordinate
C18_Witness ==
    /\ sOut.called /\ sOut.structure.returns
    /\ sIn.junk.flag /\ sIn.junk.num /= 0
    /\ sIn.roofSkin.id = 0
    /\ \E i \in 1..Len(sOut.structure.elevations) :
          LET corners == sOut.structure.elevations[i].corners
          IN  /\ Len(corners) >= 3
              /\ corners[1].cosAngle = Rat(0, 1)
              /\ \E c \in 2..Len(corners) : corners[c].cosAngle /= Rat(0, 1)


\* C19: after Step 3 of buildStructure the cosAngle of every corner is the
\* cosine of the angle between the roof edge that arrives from the corner
\* right before it and the roof edge that leaves to the corner after it, the
\* ring wrapping around (of a line, the corners between its two ends).
C19_CosAngleOfAdjacentEdges ==
    Built =>
        \A i \in 1..Len(Elevs) :
            LET corners == Elevs[i].corners
                n == Len(corners)
                before(c) == IF c = 1 THEN n ELSE c - 1
                after(c) == IF c = n THEN 1 ELSE c + 1
            IN  \A c \in (IF sOut.structure.isPolygon THEN 1..n ELSE 2..(n - 1)) :
                    corners[c].cosAngle =
                        CosBetween(VecSub(corners[c].roof, corners[before(c)].roof),
                                   VecSub(corners[after(c)].roof, corners[c].roof))


\* C20: the widthM of every face is the horizontal span between its corners,
\* the offsetX of its right corner minus that of its left corner, and is not
\* negative; so for the face that closes a polygon, whose right offsetX is
\* the left one plus the length of the edge.
C20_WidthIsSpan ==
    Built =>
        \A i \in 1..Len(Elevs) :
            \A k \in 1..Len(Elevs[i].faces) :
                LET face == Elevs[i].faces[k]
                IN  /\ face.widthM = face.right.offsetX - face.left.offsetX
                    /\ face.widthM >= 0


\* the anchors the wall builder gives the vertices of a face that the outline
\* of the face draws again: the left roof and base of its post when it has
\* one (drawPost), then the left and right roof of its crossbar
WallAnchorsOfFace(face, drawPost) ==
    LET wall == FaceAnchors(face, sOut.structure, StyleFlatten(filter))
    IN  (IF drawPost THEN <<wall[1], wall[2]>> ELSE <<>>) \o <<wall[1], wall[5]>>

\* the same for an elevation, with the right roof and base of the last face
\* for the end post of a line
WallAnchorsOfElevation(elevation) ==
    LET faces == elevation.faces
        last == FaceAnchors(faces[Len(faces)], sOut.structure, StyleFlatten(filter))
        cosMinAngle == CosOfDegrees(filter._outlineSymbol.creaseAngle)
    IN  Flatten([i \in 1..Len(faces) |->
                    WallAnchorsOfFace(faces[i],
                        OutlineOfFace(faces, i, sOut.structure, StyleFlatten(filter),
                                      cosMinAngle).posts /= <<>>)])
        \o (IF sOut.structure.isPolygon THEN <<>> ELSE <<last[5], last[3]>>)

\* C21: with GPU clamping every vertex of the outline (the top and the bottom
\* of a post, the ends of a crossbar, the end post of a line) gets the anchor
\* the wall builder gives the wall vertex at the same corner and level: a base
\* vertex ClampToGround at the vertical offset, flattened or not, a roof vertex
\* ClampToAnchor when flattening and else ClampToGround at the vertical offset
\* plus the height of its corner.
C21_OutlineAnchorsMirrorWalls ==
    (Outlined /\ filter._gpuClamping /\ result.kind = "LineDrawable") =>
        result.anchors =
            Flatten([i \in 1..Len(Elevs) |-> WallAnchorsOfElevation(Elevs[i])])


\* ------------------------------------------------------ claims on roofs

\* the line loops and the vertices of the roof of a part of the last push
RoofLines(p) ==
    RoofLoops(p.structure, StyleFlatten(filter), 1, 0, [loops |-> <<>>, verts |-> <<>>])

\* the indices the tessellator returned for the roof of a part, from 0
RoofTriangles(p) == TessellateRoof(RoofLines(p).loops, TRUE).triangles

\* a part of the last push that got a roof
HasRoof(p) == p.part.type = "polygon"

\* C22: for each roof appended to a shared roof buffer, every index appended
\* is the index of the tessellator, counted from 0, plus the number of
\* vertices the buffer held before the roof's vertices were appended; so the
\* triangles of each roof refer only to the vertices of that roof and every
\* index is below the number of vertices of the buffer.
C22_RoofIndicesOffset ==
    Processed =>
        \A i \in 1..Len(Parts) :
            LET p == Parts[i]
                buffer == filter._roofGeometries[p.roofSkin.id]
                start == p.roofStart.verts
                triangles == RoofTriangles(p)
            IN  HasRoof(p) =>
                   /\ p.roof.de = p.roofStart.de + Len(triangles)
                   /\ \A j \in 1..Len(triangles) :
                         /\ buffer.de[p.roofStart.de + j] = triangles[j] + start
                         /\ buffer.de[p.roofStart.de + j] >= start
                         /\ buffer.de[p.roofStart.de + j] < p.roof.arrays["verts"]
                         /\ buffer.de[p.roofStart.de + j] < Len(buffer.verts)

\* a roof of at least two triangles was appended to a buffer that held the
\* roof of another part already
C22_Witness ==
    /\ Processed
    /\ \E i \in 1..Len(Parts) :
          /\ HasRoof(Parts[i])
          /\ Parts[i].roofStart.verts > 0
          /\ Parts[i].roofStart.de > 0
          /\ Len(RoofTriangles(Parts[i])) >= 6


\* the corners from the source of each elevation of the structure built
SourcePerElevation == [i \in 1..Len(Elevs) |-> SourceCorners(Elevs[i])]

\* C23: buildRoofGeometry appends, for each elevation, one roof vertex for
\* each corner from the source, in the order of the ring, with the roofTexU
\* and roofTexV of the corner when there is a roof skin, and none for a
\* synthetic corner; and it makes one closed line loop for each elevation, over
\* those vertices.
C23_RoofOfSourceCorners ==
    Roofed =>
        LET roof == result.call.roof
            loops == result.call.loops
            all == Flatten(SourcePerElevation)
        IN  /\ roof.verts = [k \in 1..Len(all) |-> all[k].roof]
            /\ sIn.roofSkin.id /= 0 =>
                  roof.tex = [k \in 1..Len(all) |-> <<all[k].roofTexU, all[k].roofTexV>>]
            /\ Len(loops) = Len(Elevs)
            /\ \A i \in 1..Len(Elevs) :
                  /\ loops[i].count = Len(SourcePerElevation[i])
                  /\ loops[i].first = Len(Flatten(SubSeq(SourcePerElevation, 1, i - 1)))

\* a roof was built under a roof skin for a polygon with a hole whose walls
\* were cut by synthetic corners
C23_Witness ==
    /\ Roofed
    /\ sIn.roofSkin.id /= 0
    /\ sIn.cx.srs
    /\ Len(Elevs) = 2
    /\ \A i \in 1..2 : Len(Elevs[i].corners) > Len(SourcePerElevation[i])
    /\ Len(result.call.roof.verts) >= 6


\* ------------------------------------------------ claims on styles in turn

\* the feature of the last push a part belongs to
FeatureOf(p) ==
    log.input[CHOOSE k \in 1..Len(log.input) : log.input[k].fid = p.fid]

\* the height a style asks for on a feature: that of its height expression
\* when it sets one, of the expression of a down-extrusion when it triggers
\* one, its fixed height otherwise
StyleHeight(style, feature) ==
    IF style.extrusion.heightExpr /= ""
    THEN evalHeight(style.extrusion.heightExpr, feature)
    ELSE IF style.altitude.valid /\ ~style.extrusion.heightSet
            /\ style.altitude.clamping \in {"absolute", "relative"}
    THEN evalHeight("0-[__max_hat]", feature)
    ELSE style.extrusion.height

\* C24: the height process extrudes by depends only on the style given last
\* to setStyle: a push after setStyle(S) uses the height expression of S when
\* S sets one, the expression of a down-extrusion when S triggers it, and the
\* fixed height of S otherwise, never a height expression an earlier style
\* left.  (The style of the last push is still the filter's while no setStyle
\* followed it.)
C24_HeightOfLatestStyle ==
    (Processed /\ ~filter._styleDirty) =>
        \A i \in 1..Len(Parts) :
            Parts[i].height = StyleHeight(filter._style, FeatureOf(Parts[i]))


\* the group the last push returned holds, in the geode of the state set key,
\* the buffer of that name and key
GroupHolds(name, key) ==
    \E c \in 1..Len(result.children) :
        /\ result.children[c].kind = "Geode"
        /\ result.children[c].stateSet = key
        /\ \E d \in 1..Len(result.children[c].children) :
              result.children[c].children[d] = GeometryRef(name, key)

\* C25: for any sequence of push calls on one filter, the group each push
\* returns holds the wall and roof drawables with the geometry of all the
\* features given to that push, and no geometry an earlier push built: the
\* buffer of each part is a drawable of the group, and the first part of the
\* push that writes a buffer finds it empty.
C25_GroupOfThisPush ==
    Processed =>
        \A i \in 1..Len(Parts) :
            LET p == Parts[i]
            IN  /\ GroupHolds("Walls", p.wallSkin.id)
                /\ HasRoof(p) => GroupHolds("Roofs", p.roofSkin.id)
                /\ (\A j \in 1..(i - 1) : Parts[j].wallSkin.id /= p.wallSkin.id)
                      => p.wallStart.verts = 0
                /\ (HasRoof(p) /\ \A j \in 1..(i - 1) :
                                     ~(HasRoof(Parts[j])
                                       /\ Parts[j].roofSkin.id = p.roofSkin.id))
                      => p.roofStart.verts = 0


\* ------------------------------------------- claims on the tiling corners

\* every edge of the input has a positive length: no two points in a row of
\* a ring are the same, the last and the first of a polygon's ring neither
PositiveEdges(input) ==
    \A r \in 1..Len(input.rings) :
        LET ring == input.rings[r]
        IN  /\ \A k \in 1..(Len(ring) - 1) : ring[k] /= ring[k + 1]
            /\ (input.type = "polygon" /\ Len(ring) >= 2) => ring[Len(ring)] /= ring[1]

\* C26: synthetic corners are inserted strictly inside an edge only: none has
\* the offsetX and the position of the source corner that starts its edge; so
\* when every edge of the source has a positive length every face spans a
\* positive width, also when a texture boundary falls on a source corner.
C26_SyntheticInsideEdge ==
    (Built /\ PositiveEdges(sIn.input)) =>
        \A i \in 1..Len(Elevs) :
            /\ \A c \in 2..Len(Elevs[i].corners) :
                  LET corner == Elevs[i].corners[c]
                      before == Elevs[i].corners[c - 1]
                  IN  (~corner.isFromSource /\ before.isFromSource) =>
                         ~(/\ corner.offsetX = before.offsetX
                           /\ corner.base = before.base
                           /\ corner.roof = before.roof)
            /\ \A k \in 1..Len(Elevs[i].faces) :
                  Elevs[i].faces[k].right.offsetX - Elevs[i].faces[k].left.offsetX > 0


\* ------------------------------------------- claims on the feature index

\* the number of corners from the source of a structure
NumSource(structure) ==
    LET RECURSIVE go(_)
        go(i) == IF i > Len(structure.elevations) THEN 0
                 ELSE Len(SourceCorners(structure.elevations[i])) + go(i + 1)
    IN  go(1)

\* the ranges tags ends with are those of the parts mine, in order: each
\* covers the vertices its part appended, starts[k] on and counts[k] of them,
\* and starts where the one before it ends
RangesOf(tags, mine, starts, counts, ends) ==
    LET off == Len(tags) - Len(mine)
    IN  /\ off >= 0
        /\ \A k \in 1..Len(mine) :
              /\ tags[off + k] = [feature |-> mine[k].fid, start |-> starts[k],
                                  count |-> counts[k]]
              /\ ends[k] = starts[k] + counts[k]
              /\ k > 1 => tags[off + k].start
                             = tags[off + k - 1].start + tags[off + k - 1].count

\* C27: with a feature index, the vertex ranges given to tagRange for the
\* parts appended in a row to one wall or roof buffer are disjoint and follow
\* each other without a gap, and each covers the vertices its part appended:
\* 6 for each face in a wall buffer, one for each corner from the source in a
\* roof buffer.
C27_TagRanges ==
    (Processed /\ log.context.index) =>
        /\ \A key \in DOMAIN filter._wallGeometries :
              LET mine == SelectSeq(Parts, LAMBDA p : p.wallSkin.id = key)
              IN  RangesOf(filter._wallGeometries[key].tags, mine,
                           [k \in 1..Len(mine) |-> mine[k].wallStart.verts],
                           [k \in 1..Len(mine) |-> 6 * NumFaces(mine[k].structure)],
                           [k \in 1..Len(mine) |-> mine[k].walls.arrays["verts"]])
        /\ \A key \in DOMAIN filter._roofGeometries :
              LET mine == SelectSeq(Parts, LAMBDA p : HasRoof(p) /\ p.roofSkin.id = key)
              IN  RangesOf(filter._roofGeometries[key].tags, mine,
                           [k \in 1..Len(mine) |-> mine[k].roofStart.verts],
                           [k \in 1..Len(mine) |-> NumSource(mine[k].structure)],
                           [k \in 1..Len(mine) |-> mine[k].roof.arrays["verts"]])

\* with a feature index, two parts went in a row into one wall buffer, two
\* into one roof buffer, and a polygon with synthetic corners into buffers
\* that held vertices before it
C27_Witness ==
    /\ Processed
    /\ log.context.index
    /\ \E i \in 1..Len(Parts), j \in 1..Len(Parts) :
          /\ i < j
          /\ Parts[i].wallSkin.id = Parts[j].wallSkin.id
          /\ NumFaces(Parts[i].structure) > 0 /\ NumFaces(Parts[j].structure) > 0
    /\ \E i \in 1..Len(Parts), j \in 1..Len(Parts) :
          /\ i < j
          /\ HasRoof(Parts[i]) /\ HasRoof(Parts[j])
          /\ Parts[i].roofSkin.id = Parts[j].roofSkin.id
          /\ NumSource(Parts[i].structure) > 0 /\ NumSource(Parts[j].structure) > 0
    /\ \E j \in 1..Len(Parts) :
          /\ HasRoof(Parts[j])
          /\ Parts[j].wallStart.verts > 0
          /\ Parts[j].roofStart.verts > 0
          /\ NumSource(Parts[j].structure) < NumFaces(Parts[j].structure)


\* ----------------------------------------- claims on the sign of the height

\* C28: in every Structure built, whatever the sign of the height and the
\* flatten setting, the roof of each source corner is not below its base (the
\* frame of the structure moves both alike), and roof Z - base Z is |height|
\* unless the corner is flattened upward (flatten with a height >= 0).
C28_RoofNotBelowBase ==
    Built =>
        \A i \in 1..Len(Elevs) :
            \A c \in 1..Len(Elevs[i].corners) :
                LET corner == Elevs[i].corners[c]
                IN  corner.isFromSource =>
                       /\ corner.roof[3] >= corner.base[3]
                       /\ ~(sIn.flatten /\ sIn.height >= 0) =>
                             corner.roof[3] - corner.base[3] = Abs(sIn.height)

\* a footprint on sloping ground was extruded down with flatten set, in a
\* local frame
C28_Witness ==
    /\ Built
    /\ sIn.height < 0
    /\ sIn.flatten
    /\ sIn.cx.srs /\ sIn.cx.origin /= ZeroVec
    /\ sIn.input \in SlopedParts
    /\ Len(Elevs) >= 1
    /\ \E c \in 1..Len(Elevs[1].corners) :
          /\ Elevs[1].corners[c].isFromSource
          /\ Elevs[1].corners[c].base[3] > 0


\* ------------------------------------------ claims on the empty outline

\* the part was made with an outline symbol set and buildOutlineGeometry
\* returned no drawable
EmptyOutline(p) == filter._outlineSymbol.valid /\ p.outlines = NoDrawable

\* C29: process leaves the drawable containers as they were for an empty
\* outline: when an outline symbol is set and buildOutlineGeometry returns no
\* drawable, no container is made for any state key and no child is added to
\* a container there is.
C29_EmptyOutlineAddsNothing ==
    Processed =>
        \A i \in 1..Len(Parts) :
            EmptyOutline(Parts[i]) =>
                Parts[i].containers.after = Parts[i].containers.before


\* ------------------------------------------------------------ Capabilities

\* a GL version as ten times its number: 2.0 is 20
GL(major, minor) == major * 10 + minor

\* osg::isGLExtensionSupported: the driver lists the extension
isGLExtensionSupported(gl, extension) == extension \in gl.extensions

\* osg::isGLExtensionOrVersionSupported: the GL version is the one required
\* or a later one, or the driver lists the extension
isGLExtensionOrVersionSupported(gl, extension, requiredGLVersion) ==
    gl.glVersion >= requiredGLVersion \/ isGLExtensionSupported(gl, extension)

\* the members as the initializer list of the constructor leaves them;
\* _supportsInt64 is not in the list and holds what the memory held
InitialCapabilities(gl) ==
    [kind |-> "Capabilities",
     _maxTextureSize |-> 256, _maxFastTextureSize |-> 256,
     _supportsGLSL |-> FALSE, _GLSLversion |-> GL(1, 0),
     _supportsTextureArrays |-> FALSE, _supportsMultiTexture |-> FALSE,
     _supportsStencilWrap |-> TRUE, _supportsTwoSidedStencil |-> FALSE,
     _supportsMipmappedTextureUpdates |-> FALSE,
     _supportsDepthPackedStencilBuffer |-> FALSE,
     _supportsOcclusionQuery |-> FALSE, _supportsDrawInstanced |-> FALSE,
     _supportsUniformBufferObjects |-> FALSE,
     _supportsNonPowerOfTwoTextures |-> FALSE,
     _maxUniformBlockSize |-> 0, _numProcessors |-> 1,
     _supportsFragDepthWrite |-> FALSE,
     _supportsS3TC |-> FALSE, _supportsPVRTC |-> FALSE, _supportsARBTC |-> FALSE,
     _supportsETC |-> FALSE, _supportsRGTC |-> FALSE,
     _supportsTextureBuffer |-> FALSE, _isCoreProfile |-> TRUE,
     _supportsVertexArrayObjects |-> FALSE, _supportsNVGL |-> FALSE,
     _isGLES |-> FALSE, _supportsInt64 |-> gl.memory,
     _vendor |-> ""]

\* the greatest size the proxy texture takes, from the size the driver gives
\* down to 4; the size the driver gives when the proxy takes none
RECURSIVE ProxyTextureSize(_, _)
ProxyTextureSize(gl, s) ==
    IF s <= 2 THEN gl.maxTextureSize
    ELSE IF s <= gl.proxyTextureSize THEN s
    ELSE ProxyTextureSize(gl, s \div 2)

\* the constructor with the zero block size left aside: C30_UniformBuffers
\* must reject it
CapabilitiesBlockSizeIgnored(gl) ==
    LET c0 == [InitialCapabilities(gl) EXCEPT
                  !._numProcessors = IF gl.hardwareConcurrency <= 0 THEN 4
                                     ELSE gl.hardwareConcurrency,
                  !._isGLES = gl.gles > 0]
        gcFound == gl.android \/ gl.mgcValid
        glsl == gl.isGlslSupported
    IN  IF ~gcFound THEN c0
        ELSE [c0 EXCEPT
                !._supportsGLSL = glsl,
                !._maxUniformBlockSize = gl.maxUniformBlockSize,
                !._supportsUniformBufferObjects =
                    glsl /\ isGLExtensionOrVersionSupported(
                                gl, "GL_ARB_uniform_buffer_object", GL(2, 0))]

\* Capabilities::Capabilities: the members are given their defaults, and when
\* a graphics context was made (or on Android, where none is asked for) they
\* are read from the driver gl
Capabilities(gl) ==
    LET c0 == [InitialCapabilities(gl) EXCEPT
                  !._numProcessors = IF gl.hardwareConcurrency <= 0 THEN 4
                                     ELSE gl.hardwareConcurrency,
                  !._isGLES = gl.gles > 0]
        gcFound == gl.android \/ gl.mgcValid
        glsl == gl.isGlslSupported
        maxTextureSize == IF gl.gles > 0 THEN gl.maxTextureSize
                          ELSE ProxyTextureSize(gl, gl.maxTextureSize)
        ubo == glsl /\ isGLExtensionOrVersionSupported(
                           gl, "GL_ARB_uniform_buffer_object", GL(2, 0))
        isATI == gl.vendor = "ATI "
    IN  IF ~gcFound THEN c0
        ELSE [c0 EXCEPT
                !._supportsGLSL = glsl,
                !._GLSLversion = gl.glslLanguageVersion,
                !._vendor = gl.vendor,
                !._isCoreProfile = IF gl.glVersion < GL(3, 2) THEN FALSE
                                   ELSE gl.coreProfileBit,
                !._supportsNVGL =
                    /\ gl.glVersion >= GL(4, 4)
                    /\ isGLExtensionSupported(gl, "GL_NV_vertex_buffer_unified_memory")
                    /\ isGLExtensionSupported(gl, "GL_NV_shader_buffer_load")
                    /\ isGLExtensionSupported(gl, "GL_NV_bindless_multi_draw_indirect"),
                !._maxTextureSize = maxTextureSize,
                !._supportsTextureArrays =
                    /\ glsl
                    /\ gl.glVersion >= GL(2, 0)
                    /\ isGLExtensionSupported(gl, "GL_EXT_texture_array"),
                !._supportsMultiTexture =
                    \/ gl.glVersion >= GL(1, 3)
                    \/ isGLExtensionSupported(gl, "GL_ARB_multitexture")
                    \/ isGLExtensionSupported(gl, "GL_EXT_multitexture"),
                !._supportsStencilWrap =
                    isGLExtensionSupported(gl, "GL_EXT_stencil_wrap"),
                !._supportsTwoSidedStencil =
                    isGLExtensionSupported(gl, "GL_EXT_stencil_two_side"),
                !._supportsDepthPackedStencilBuffer =
                    \/ isGLExtensionSupported(gl, "GL_EXT_packed_depth_stencil")
                    \/ isGLExtensionSupported(gl, "GL_OES_packed_depth_stencil"),
                !._supportsOcclusionQuery =
                    isGLExtensionSupported(gl, "GL_ARB_occlusion_query"),
                !._supportsDrawInstanced =
                    glsl /\ isGLExtensionOrVersionSupported(
                                gl, "GL_EXT_draw_instanced", GL(3, 1)),
                !._maxUniformBlockSize = gl.maxUniformBlockSize,
                !._supportsUniformBufferObjects =
                    IF ubo /\ gl.maxUniformBlockSize = 0 THEN FALSE ELSE ubo,
                !._supportsNonPowerOfTwoTextures =
                    IF gl.gles = 3 THEN TRUE
                    ELSE isGLExtensionSupported(gl, "GL_ARB_texture_non_power_of_two"),
                !._supportsTextureBuffer =
                    IF gl.gles = 3 THEN FALSE
                    ELSE \/ isGLExtensionOrVersionSupported(
                                gl, "GL_ARB_texture_buffer_object", GL(3, 0))
                         \/ isGLExtensionOrVersionSupported(
                                gl, "GL_EXT_texture_buffer_object", GL(3, 0)),
                !._supportsFragDepthWrite = gl.gles \notin {1, 2},
                !._supportsMipmappedTextureUpdates =
                    ~(isATI /\ gl.enableATIworkarounds),
                !._maxFastTextureSize = maxTextureSize,
                !._supportsARBTC =
                    isGLExtensionSupported(gl, "GL_ARB_texture_compression"),
                !._supportsS3TC =
                    isGLExtensionSupported(gl, "GL_EXT_texture_compression_s3tc"),
                !._supportsPVRTC =
                    isGLExtensionSupported(gl, "GL_IMG_texture_compression_pvrtc"),
                !._supportsETC =
                    isGLExtensionSupported(gl, "GL_OES_compressed_ETC1_RGB8_texture"),
                !._supportsRGTC =
                    isGLExtensionSupported(gl, "GL_EXT_texture_compression_rgtc"),
                !._supportsVertexArrayObjects =
                    isGLExtensionOrVersionSupported(
                        gl, "GL_ARB_vertex_array_object", GL(3, 0)),
                !._supportsInt64 =
                    isGLExtensionSupported(gl, "GL_ARB_gpu_shader_int64")]

\* the extensions the drivers differ in
Extensions ==
    {"GL_ARB_uniform_buffer_object", "GL_EXT_draw_instanced", "GL_EXT_texture_array"}

\* the builds: the desktop one, and those for Android with GLES 2 and GLES 3
Builds == {<<FALSE, 0>>, <<TRUE, 2>>, <<TRUE, 3>>}

\* the platforms the constructor runs on: the build, whether the graphics
\* context could be made, and what the driver answers
Platforms ==
    { [android |-> b[1], gles |-> b[2], mgcValid |-> valid,
       isGlslSupported |-> glsl, glslLanguageVersion |-> version,
       glVersion |-> version, coreProfileBit |-> FALSE,
       extensions |-> extensions, maxUniformBlockSize |-> blockSize,
       maxTextureSize |-> 4096, proxyTextureSize |-> 2048,
       vendor |-> vendor, enableATIworkarounds |-> TRUE,
       hardwareConcurrency |-> cpus, memory |-> memory] :
        b \in Builds, valid \in BOOLEAN, glsl \in BOOLEAN,
        version \in {GL(1, 1), GL(2, 0), GL(4, 4)},
        extensions \in SUBSET Extensions, blockSize \in {0, 16384},
        vendor \in {"NVIDIA Corporation", "ATI Technologies Inc."},
        cpus \in {0, 8}, memory \in BOOLEAN }

InitCapabilities ==
    /\ sIn \in Platforms
    /\ sOut = [called |-> FALSE, structure |-> EmptyStructure]
    /\ filter = NewFilter
    /\ result = [kind |-> "none"]
    /\ log = NoLog
    /\ pushes = 0

\* the Registry constructs its Capabilities
CapabilitiesCall ==
    /\ result = [kind |-> "none"]
    /\ result' = Capabilities(sIn)
    /\ UNCHANGED <<sIn, sOut, filter, log, pushes>>

NextCapabilities == CapabilitiesCall

SpecCapabilities == InitCapabilities /\ [][NextCapabilities]_vars

Constructed == result.kind = "Capabilities"

\* C30: after the construction of Capabilities, supportsUniformBufferObjects
\* is true only if GLSL is supported and the maximum uniform block size the
\* driver reported is not zero; when the graphics context asked for could not
\* be made it stays false.
C30_UniformBuffers ==
    Constructed =>
        /\ result._supportsUniformBufferObjects =>
              /\ result._supportsGLSL
              /\ result._maxUniformBlockSize /= 0
        /\ (~sIn.android /\ ~sIn.mgcValid) => ~result._supportsUniformBufferObjects

\* a driver with GLSL and uniform buffer objects that reports a block size of
\* zero: the constructor turned the support off
C30_Witness ==
    /\ Constructed
    /\ sIn.mgcValid /\ ~sIn.android
    /\ result._supportsGLSL
    /\ isGLExtensionOrVersionSupported(sIn, "GL_ARB_uniform_buffer_object", GL(2, 0))
    /\ result._maxUniformBlockSize = 0
    /\ ~result._supportsUniformBufferObjects

=============================================================================
